---- MODULE Spec2Model ----
(***************************************************************************)
(* Incremental aggregation pipeline of the usage dashboard:                *)
(*   dashboard.ts   data store (initializeDataStore, invalidateCache,      *)
(*                  getDashboardData, refreshData)                         *)
(*   parsers.ts     parseAllSessionsIndex, worker dispatch and fallback    *)
(*   config.ts      ProjectCacheManager (needsParsing, updateCache, get)   *)
(*   project-parser.ts  parseProjectDirectory / parseProjects              *)
(*   watcher / instrumentation  change events and startup                  *)
(* and, each under a specification of its own, with the rest at rest:      *)
(*   AggSpec      refreshData as a function of the parsers' results        *)
(*   TrackerSpec  session-tracker.ts, the tracker and automatic shutdown   *)
(*   SseSpec      pid-manager.ts, SSEManager                               *)
(*   DecoderSpec  streaming/readline-jsonl.ts, streamJSONL                 *)
(*   CallSpec     calculateCost and needsParsing as functions              *)
(*   PidSpec      pid-manager.ts, PIDManager: server processes and lock    *)
(*   ParseSpec    project-parser.ts, parseProjects file by file            *)
(*                                                                         *)
(* One Node event loop: an action is the block of code that runs between   *)
(* two I/O completions (a stat, a readdir, a file read, a worker message). *)
(* Strings that the code takes apart (directory names, paths) are          *)
(* sequences of one-character strings.                                     *)
(***************************************************************************)
EXTENDS Integers, Sequences, FiniteSets, TLC

\* ---------------------------------------------------------------- bounds
MaxRefresh == 3
MaxWrites == 1
MaxGetters == 1
NumCPUs == 2

\* ------------------------------------------------------ program constants
MaxWorkers == 4
USE_WORKERS == TRUE
USE_CACHE == TRUE

\* ------------------------------------------------------------- the input
\* Three project directories under ~/.claude/projects. A and B are the
\* working directories /a/x and /b/x (same base name), C is /c/y.
Projects == {"A", "B", "C"}

IdOf(p) ==
  CASE p = "A" -> <<"-", "a", "-", "x">>
    [] p = "B" -> <<"-", "b", "-", "x">>
    [] OTHER   -> <<"-", "c", "-", "y">>

CwdOf(p) ==
  CASE p = "A" -> <<"/", "a", "/", "x">>
    [] p = "B" -> <<"/", "b", "/", "x">>
    [] OTHER   -> <<"/", "c", "/", "y">>

\* The listings readdir(projectsDir) may return.
DirListings == { <<"A", "C">>, <<"A", "B">> }

\* The listed directories that may start without logs and without index.
MayBeEmpty == {"C"}

NoProject == "none"

\* ------------------------------------------------------- string helpers
\* String.prototype.includes on sequences of characters.
Includes(hay, needle) ==
  \E i \in 1..(Len(hay) + 1) :
     /\ i + Len(needle) - 1 <= Len(hay)
     /\ SubSeq(hay, i, i + Len(needle) - 1) = needle

\* path.basename: the part after the last separator.
RECURSIVE basename(_)
basename(path) ==
  IF path = <<>> THEN <<>>
  ELSE IF path[Len(path)] = "/" THEN <<>>
  ELSE Append(basename(SubSeq(path, 1, Len(path) - 1)), path[Len(path)])

RECURSIVE SumSeq(_)
SumSeq(s) == IF s = <<>> THEN 0 ELSE s[1] + SumSeq(Tail(s))

RECURSIVE Flat(_)
Flat(ss) == IF ss = <<>> THEN <<>> ELSE ss[1] \o Flat(Tail(ss))

Min(a, b) == IF a < b THEN a ELSE b
Max(a, b) == IF a > b THEN a ELSE b
CeilDiv(a, b) == (a + b - 1) \div b

\* ------------------------------------------------------ project summaries
\* A directory's content is its version: 0 is a directory without logs and
\* without index, every write adds records. A summary is determined by the
\* directory parsed and the version read.
NullSummary == [src |-> NoProject, ver |-> 0]

\* A parse that returns a summary for every directory.
parseKeepingEmpty(p, ver) == [src |-> p, ver |-> ver]

parseProjectDirectory(p, ver) ==
  IF ver = 0 THEN NullSummary ELSE [src |-> p, ver |-> ver]

SummaryPath(s) == CwdOf(s.src)
SummaryName(s) == basename(SummaryPath(s))
LastActive(s) == s.ver

\* Cost in cents and tokens per category, as accumulated from the records
\* present at version ver.
BaseCost(p) == CASE p = "A" -> 123 [] p = "B" -> 456 [] OTHER -> 200
EstimatedCost(s) == BaseCost(s.src) * s.ver
TokenCategories == {"input", "output", "cacheRead", "cacheCreation"}
BaseTokens(p, cat) ==
  (CASE p = "A" -> 1 [] p = "B" -> 2 [] OTHER -> 3)
  + (CASE cat = "input" -> 10 [] cat = "output" -> 20
       [] cat = "cacheRead" -> 30 [] OTHER -> 40)
TotalTokens(s, cat) == BaseTokens(s.src, cat) * s.ver

\* ----------------------------------------------------------- project cache
\* The cache is the Map of ProjectCacheManager: its domain is the set of
\* keys present, an entry is [mtime, summary].
enabled == USE_CACHE

\* extractProjectIdFromPath: a changed file is named by the project
\* directory it lies in, or is a file outside projects/ (stats-cache.json).
StatsFile == "stats-cache.json"
extractProjectIdFromPath(filePath) ==
  IF filePath \in Projects THEN filePath ELSE NoProject

\* needsParsing up to its stat call: TRUE is returned without any I/O when
\* the cache is disabled or holds no entry.
NeedsParsingNoStat(c, p) == (~enabled) \/ (p \notin DOMAIN c)

\* needsParsing once the stat has returned: cachedMtime is the entry read
\* before the stat, mtimeMs the directory's modification time.
NeedsParsingAfterStat(cachedMtime, mtimeMs) == mtimeMs > cachedMtime

\* needsParsing as a whole, when nothing runs between its two halves.
needsParsing(c, mt, p) ==
  IF NeedsParsingNoStat(c, p) THEN TRUE
  ELSE NeedsParsingAfterStat(c[p].mtime, mt[p])

updateCache(c, p, mtimeMs, summary) ==
  IF ~enabled THEN c
  ELSE [q \in (DOMAIN c) \cup {p} |->
          IF q = p THEN [mtime |-> mtimeMs, summary |-> summary] ELSE c[q]]

get(c, p) ==
  IF enabled /\ p \in DOMAIN c THEN c[p].summary ELSE NullSummary

invalidateProject(c, p) == [q \in (DOMAIN c) \ {p} |-> c[q]]

\* projectDirs.find(id => summary.path.includes(id) || id.includes(summary.name))
RECURSIVE FindFrom(_, _, _)
FindFrom(dirs, s, n) ==
  IF n > Len(dirs) THEN NoProject
  ELSE IF Includes(SummaryPath(s), IdOf(dirs[n]))
          \/ Includes(IdOf(dirs[n]), SummaryName(s))
       THEN dirs[n]
       ELSE FindFrom(dirs, s, n + 1)

FindProjectId(dirs, s) == FindFrom(dirs, s, 1)

\* ------------------------------------------------------------ dispatcher
RECURSIVE chunkArray(_, _)
chunkArray(array, chunkSize) ==
  IF array = <<>> THEN <<>>
  ELSE IF Len(array) <= chunkSize THEN <<array>>
  ELSE <<SubSeq(array, 1, chunkSize)>>
         \o chunkArray(SubSeq(array, chunkSize + 1, Len(array)), chunkSize)

\* A split into groups of one project each.
ChunksOfOne(projectIds, numCPUs) == chunkArray(projectIds, 1)

\* The chunks of parseProjectsWithWorkers on a machine with numCPUs cores.
ChunksFor(projectIds, numCPUs) ==
  LET maxWorkers == Min(Min(MaxWorkers, numCPUs), Len(projectIds))
      chunkSize == CeilDiv(Len(projectIds), maxWorkers)
  IN chunkArray(projectIds, Max(1, chunkSize))

WorkerChunks(projectIds) == ChunksFor(projectIds, NumCPUs)

\* runWorker: a spawned worker, its chunk, how far it has parsed, what it
\* has collected and the state of the promise runWorker returned.
NewWorker(chunk) ==
  [chunk |-> chunk, pos |-> 1, results |-> <<>>, status |-> "running"]

SpawnWorkers(projectIds) ==
  LET chunks == WorkerChunks(projectIds)
  IN [w \in 1..Len(chunks) |-> NewWorker(chunks[w])]

\* results.flat() of parseProjectsWithWorkers
FlatResults(workers) == Flat([w \in 1..Len(workers) |-> workers[w].results])

\* allProjects.sort by lastActive, newest first (the sort is stable)
RECURSIVE InsertSorted(_, _)
InsertSorted(s, x) ==
  IF s = <<>> THEN <<x>>
  ELSE IF LastActive(s[1]) >= LastActive(x)
       THEN <<s[1]>> \o InsertSorted(Tail(s), x)
       ELSE <<x>> \o s

RECURSIVE SortByLastActive(_)
SortByLastActive(s) ==
  IF s = <<>> THEN <<>>
  ELSE InsertSorted(SortByLastActive(SubSeq(s, 1, Len(s) - 1)), s[Len(s)])

MergeProjects(cachedSummaries, parsedProjects) ==
  SortByLastActive(cachedSummaries \o parsedProjects)

\* ------------------------------------------------------------------ state
VARIABLES
  projectDirs,            \* what readdir(projectsDir) returns
  dirMtime,               \* modification time of each project directory
  dirVer,                 \* content version of each project directory
  clock,                  \* number of directory writes so far
  pendingChanges,         \* changed projects the watcher has not reported yet
  cache,                  \* ProjectCacheManager.cache
  cachedData,             \* dashboard.ts cachedData
  initializationPromise,  \* 0 for null, else the refresh whose promise it is
  refresh,                \* the refreshData invocations, by trigger order
  started,                \* number of refreshData invocations so far
  published,              \* number of assignments to cachedData so far
  callers,                \* register() (0) and the getDashboardData calls
  watcherInitialized,     \* watcher.ts watcherInitialized
  sseLog                  \* the events handed to sseManager.broadcast

\* refreshData as a function of what the two parsers hand back
VARIABLES
  aggIn,                  \* [stats, projects]: the results of Promise.all
  aggOut                  \* the DashboardData built from them, or NoResult

\* session-tracker.ts, class SessionTracker; time is counted in ticks and
\* kept relative (ages and countdowns), so that it needs no bound
VARIABLES
  config,                 \* idleTimeoutMs, gracePeriodMs, disableShutdown
  state,                  \* SessionTracker.state
  sessions,               \* session key -> now - lastActivity
  graceTimer,             \* "null", "armed" or "fired" (handle kept)
  graceStartTime,         \* -1 for null, else now - graceStartTime
  nextCheck,              \* ticks until the interval calls checkState
  shutdown,               \* position in initiateShutdown and what it did
  transitions,            \* the transitionTo calls of the last operation
  quiet,                  \* ticks since the last observed session-log write
  observed,               \* number of session-log writes observed so far
  reported                \* the path the last operation was notified of

\* pid-manager.ts, class SSEManager
VARIABLES
  clients,                \* the Set of clients, in insertion order
  closed,                 \* clients whose controller throws on enqueue
  delivered,              \* client -> the events enqueued on its stream
  broadcasts              \* the broadcast calls so far and whom each failed to reach

\* streaming/readline-jsonl.ts, streamJSONL
VARIABLES
  jsonl,                  \* the lines of the file being read
  reader                  \* the generator: position, counters, records

\* pricing.ts and config.ts: one call of a function and what it returns
VARIABLES
  call,                   \* the function called and its arguments
  ret                     \* its return value, or NoResult before it returns

\* pid-manager.ts, class PIDManager, in several server processes
VARIABLES
  pidFile,                \* ~/.claude/.dashboard-pid: 0 when absent, else a pid
  procs                   \* process -> position in register() and locals

\* project-parser.ts, parseProjects in one worker process
VARIABLES
  parseDirs,              \* parse -> the directory content it is given
  jobs                    \* parse -> position and locals of parseProjectDirectory

pipelineVars ==
  <<projectDirs, dirMtime, dirVer, clock, pendingChanges, cache,
    cachedData, initializationPromise, refresh, started, published,
    callers, watcherInitialized, sseLog>>
aggVars == <<aggIn, aggOut>>
trackerVars ==
  <<config, state, sessions, graceTimer, graceStartTime, nextCheck,
    shutdown, transitions, quiet, observed, reported>>
sseVars == <<clients, closed, delivered, broadcasts>>
decoderVars == <<jsonl, reader>>

\* What the pipeline leaves alone.
callVars == <<call, ret>>
pidVars == <<pidFile, procs>>
parseVars == <<parseDirs, jobs>>
extraVars == <<callVars, pidVars, parseVars>>
auxVars == <<aggVars, trackerVars, sseVars, decoderVars, extraVars>>

vars == <<pipelineVars, auxVars>>

\* The subsystems before they are started.
NoResult == [none |-> TRUE]
NoShutdown == [pc |-> "none", log |-> <<>>, failed |-> FALSE]

\* No change notification.
NoPath == [dirs |-> <<>>, name |-> "", ext |-> ""]
AggOff == aggIn = NoResult /\ aggOut = NoResult
TrackerOff ==
  /\ config = NoResult
  /\ state = "STARTING"
  /\ sessions = <<>>
  /\ graceTimer = "null"
  /\ graceStartTime = -1
  /\ nextCheck = 0
  /\ shutdown = NoShutdown
  /\ transitions = <<>>
  /\ quiet = 0
  /\ observed = 0
  /\ reported = NoPath
SseOff ==
  /\ clients = <<>>
  /\ closed = {}
  /\ delivered = <<>>
  /\ broadcasts = <<>>
DecoderOff == jsonl = <<>> /\ reader = NoResult
CallOff == call = NoResult /\ ret = NoResult
PidOff == pidFile = 0 /\ procs = <<>>
ParseOff == parseDirs = <<>> /\ jobs = <<>>
ExtraOff == CallOff /\ PidOff /\ ParseOff

Refreshes == 1..MaxRefresh
Register == 0
Getters == 1..MaxGetters
Callers == {Register} \cup Getters
Listed == {projectDirs[n] : n \in 1..Len(projectDirs)}

\* cachedData === null
NoData ==
  [by |-> 0, seq |-> 0, projects |-> <<>>, totalEstimatedCost |-> 0,
   totalInputTokens |-> 0, totalOutputTokens |-> 0,
   totalCacheReadTokens |-> 0, totalCacheCreationTokens |-> 0]

IdleRefresh ==
  [pc |-> "idle", changedFile |-> "", i |-> 0, seenMtime |-> 0,
   projectsToParse |-> <<>>, cachedSummaries |-> <<>>,
   parsedProjects |-> <<>>, usedWorkers |-> FALSE, workers |-> <<>>,
   allProjects |-> <<>>, workerFailed |-> FALSE]

\* refreshData up to its first suspension: parseStatsCache has issued its
\* readFile and parseAllSessionsIndex its readdir.
NewRefresh(changedFile) ==
  [IdleRefresh EXCEPT !.pc = "readdir", !.changedFile = changedFile]

IdleCaller ==
  [pc |-> "idle", promise |-> 0, starter |-> FALSE, result |-> NoData,
   pubAtCall |-> 0, pubAtRet |-> 0, eventsAtCall |-> 0]

Init ==
  /\ projectDirs \in DirListings
  /\ dirMtime = [p \in Projects |-> 0]
  /\ dirVer \in [Projects -> {0, 1}]
  /\ \A p \in Projects : p \notin Listed => dirVer[p] = 0
  /\ \A p \in Listed \ MayBeEmpty : dirVer[p] = 1
  /\ clock = 0
  /\ pendingChanges = {}
  /\ cache = [p \in {} |-> 0]
  /\ cachedData = NoData
  /\ initializationPromise = 0
  /\ refresh = [r \in Refreshes |-> IdleRefresh]
  /\ started = 0
  /\ published = 0
  /\ callers = [c \in Callers |-> IdleCaller]
  /\ watcherInitialized = FALSE
  /\ sseLog = <<>>
  /\ AggOff /\ TrackerOff /\ SseOff /\ DecoderOff /\ ExtraOff

\* ------------------------------------------- parseAllSessionsIndex, steps
\* End of parseAllSessionsIndex: merge, sort, return.
Merged(rec) ==
  [rec EXCEPT !.pc = "merged", !.i = 0, !.seenMtime = 0,
              !.allProjects = MergeProjects(rec.cachedSummaries,
                                            rec.parsedProjects)]

\* The cache write-back loop up to its next stat: summaries for which find
\* yields no id are skipped.
RECURSIVE NextUpdatable(_, _, _)
NextUpdatable(dirs, parsed, k) ==
  IF k > Len(parsed) THEN k
  ELSE IF FindProjectId(dirs, parsed[k]) # NoProject THEN k
  ELSE NextUpdatable(dirs, parsed, k + 1)

ContinueUpdate(dirs, rec, k) ==
  LET n == IF enabled THEN NextUpdatable(dirs, rec.parsedProjects, k)
           ELSE Len(rec.parsedProjects) + 1
  IN IF n > Len(rec.parsedProjects) THEN Merged(rec)
     ELSE [rec EXCEPT !.pc = "update", !.i = n]

\* The parse dispatch once the stale set is known.
Dispatch(rec) ==
  IF rec.projectsToParse = <<>> THEN Merged(rec)
  ELSE IF USE_WORKERS /\ Len(rec.projectsToParse) >= 2
       THEN [rec EXCEPT !.pc = "workers", !.i = 0, !.seenMtime = 0,
                        !.workers = SpawnWorkers(rec.projectsToParse)]
       ELSE [rec EXCEPT !.pc = "seq", !.i = 1, !.seenMtime = 0]

\* The partition loop from index n up to its next stat: a project without
\* cache entry is stale without any I/O.
RECURSIVE ScanNext(_, _, _, _)
ScanNext(c, dirs, rec, n) ==
  IF n > Len(dirs) THEN Dispatch(rec)
  ELSE IF NeedsParsingNoStat(c, dirs[n])
       THEN ScanNext(c, dirs,
              [rec EXCEPT !.projectsToParse = Append(@, dirs[n])], n + 1)
       ELSE [rec EXCEPT !.pc = "stat", !.i = n,
                        !.seenMtime = c[dirs[n]].mtime]

\* ----------------------------------------------------------- environment
\* A write into project directory p: its content and its mtime advance. A
\* running watcher will report it.
Write(p) ==
  /\ p \in Listed
  /\ clock < MaxWrites
  /\ clock' = clock + 1
  /\ dirMtime' = [dirMtime EXCEPT ![p] = clock + 1]
  /\ dirVer' = [dirVer EXCEPT ![p] = @ + 1]
  /\ pendingChanges' = IF watcherInitialized THEN pendingChanges \cup {p}
                       ELSE pendingChanges
  /\ UNCHANGED <<projectDirs, cache, cachedData, initializationPromise,
                 refresh, started, published, callers, watcherInitialized,
                 sseLog>>
  /\ UNCHANGED auxVars

\* ------------------------------------------------------- refresh triggers
StartRefresh(changedFile) ==
  /\ started < MaxRefresh
  /\ started' = started + 1
  /\ refresh' = [refresh EXCEPT ![started + 1] = NewRefresh(changedFile)]

\* watcher.on('change') for a file of project p: invalidateCache(filePath)
WatcherChange(p) ==
  /\ watcherInitialized
  /\ p \in pendingChanges
  /\ pendingChanges' = pendingChanges \ {p}
  /\ StartRefresh(p)
  /\ UNCHANGED <<projectDirs, dirMtime, dirVer, clock, cache, cachedData,
                 initializationPromise, published, callers,
                 watcherInitialized, sseLog>>
  /\ UNCHANGED auxVars

\* watcher.on('change') for stats-cache.json or history.jsonl
WatcherStatsChange ==
  /\ watcherInitialized
  /\ StartRefresh(StatsFile)
  /\ UNCHANGED <<projectDirs, dirMtime, dirVer, clock, pendingChanges, cache,
                 cachedData, initializationPromise, published, callers,
                 watcherInitialized, sseLog>>
  /\ UNCHANGED auxVars

\* An initializeDataStore that starts the refresh without awaiting it.
InitializeDataStoreNoAwait(c) ==
  IF cachedData # NoData
  THEN /\ callers' = [callers EXCEPT ![c].pc = "returned"]
       /\ watcherInitialized' = (watcherInitialized \/ c = Register)
       /\ UNCHANGED <<initializationPromise, refresh, started>>
  ELSE IF initializationPromise # 0
  THEN /\ callers' = [callers EXCEPT ![c].pc = "await",
                                     ![c].promise = initializationPromise]
       /\ UNCHANGED <<initializationPromise, refresh, started,
                      watcherInitialized>>
  ELSE /\ StartRefresh("")
       /\ initializationPromise' = started + 1
       /\ callers' = [callers EXCEPT
                        ![c].pc = IF c = Register THEN "returned" ELSE "threw",
                        ![c].promise = started + 1,
                        ![c].starter = TRUE]
       /\ watcherInitialized' = (watcherInitialized \/ c = Register)

\* initializeDataStore up to its return or its await, for caller c.
\* register() goes on to initializeWatcher when it returns.
InitializeDataStore(c) ==
  IF cachedData # NoData
  THEN /\ callers' = [callers EXCEPT ![c].pc = "returned"]
       /\ watcherInitialized' = (watcherInitialized \/ c = Register)
       /\ UNCHANGED <<initializationPromise, refresh, started>>
  ELSE IF initializationPromise # 0
  THEN /\ callers' = [callers EXCEPT ![c].pc = "await",
                                     ![c].promise = initializationPromise]
       /\ UNCHANGED <<initializationPromise, refresh, started,
                      watcherInitialized>>
  ELSE /\ StartRefresh("")
       /\ initializationPromise' = started + 1
       /\ callers' = [callers EXCEPT ![c].pc = "await",
                                     ![c].promise = started + 1,
                                     ![c].starter = TRUE]
       /\ UNCHANGED watcherInitialized

\* instrumentation register(): await initializeDataStore()
RegisterStart ==
  /\ callers[Register].pc = "idle"
  /\ InitializeDataStore(Register)
  /\ UNCHANGED <<projectDirs, dirMtime, dirVer, clock, pendingChanges, cache,
                 cachedData, published, sseLog>>
  /\ UNCHANGED auxVars

\* getDashboardData called by a request handler
GetDashboardData(c) ==
  /\ c \in Getters
  /\ callers[c].pc = "idle"
  /\ IF cachedData # NoData
     THEN /\ callers' = [callers EXCEPT ![c].pc = "returned",
                                        ![c].result = cachedData,
                                        ![c].pubAtCall = published,
                                        ![c].pubAtRet = published,
                                        ![c].eventsAtCall = Len(sseLog)]
          /\ UNCHANGED <<initializationPromise, refresh, started,
                         watcherInitialized>>
     ELSE /\ InitializeDataStore(c)
  /\ UNCHANGED <<projectDirs, dirMtime, dirVer, clock, pendingChanges, cache,
                 cachedData, published, sseLog>>
  /\ UNCHANGED auxVars

\* The awaited initialization promise has settled: the rest of
\* initializeDataStore, then of its caller.
Resume(c) ==
  /\ callers[c].pc = "await"
  /\ refresh[callers[c].promise].pc \in {"done", "failed"}
  /\ IF refresh[callers[c].promise].pc = "failed"
     THEN /\ callers' = [callers EXCEPT ![c].pc = "threw"]
          /\ initializationPromise' =
               IF callers[c].starter THEN 0 ELSE initializationPromise
          /\ UNCHANGED watcherInitialized
     ELSE /\ initializationPromise' = initializationPromise
          /\ IF c = Register
             THEN /\ callers' = [callers EXCEPT ![c].pc = "returned"]
                  /\ watcherInitialized' = TRUE
             ELSE /\ callers' =
                       IF cachedData = NoData
                       THEN [callers EXCEPT ![c].pc = "threw"]
                       ELSE [callers EXCEPT ![c].pc = "returned",
                                            ![c].result = cachedData,
                                            ![c].pubAtRet = published]
                  /\ UNCHANGED watcherInitialized
  /\ UNCHANGED <<projectDirs, dirMtime, dirVer, clock, pendingChanges, cache,
                 cachedData, refresh, started, published, sseLog>>
  /\ UNCHANGED auxVars

\* ------------------------------------------------ parseAllSessionsIndex
\* readdir has returned: evict the changed project, then partition.
AfterReaddir(r) ==
  /\ refresh[r].pc = "readdir"
  /\ LET changedFile == refresh[r].changedFile
         projectId == extractProjectIdFromPath(changedFile)
         c1 == IF changedFile # "" /\ projectId # NoProject
               THEN invalidateProject(cache, projectId) ELSE cache
     IN /\ cache' = c1
        /\ refresh' = [refresh EXCEPT ![r] = ScanNext(c1, projectDirs, @, 1)]
  /\ UNCHANGED <<projectDirs, dirMtime, dirVer, clock, pendingChanges,
                 cachedData, initializationPromise, started, published,
                 callers, watcherInitialized, sseLog>>
  /\ UNCHANGED auxVars

\* The stat of needsParsing has returned for projectDirs[i].
StatDone(r) ==
  /\ refresh[r].pc = "stat"
  /\ LET rec == refresh[r]
         projectId == projectDirs[rec.i]
         stale == NeedsParsingAfterStat(rec.seenMtime, dirMtime[projectId])
         cached == get(cache, projectId)
         rec1 == IF stale
                 THEN [rec EXCEPT !.projectsToParse = Append(@, projectId)]
                 ELSE IF cached # NullSummary
                      THEN [rec EXCEPT !.cachedSummaries = Append(@, cached)]
                      ELSE rec
     IN refresh' = [refresh EXCEPT
                      ![r] = ScanNext(cache, projectDirs, rec1, rec.i + 1)]
  /\ UNCHANGED <<projectDirs, dirMtime, dirVer, clock, pendingChanges, cache,
                 cachedData, initializationPromise, started, published,
                 callers, watcherInitialized, sseLog>>
  /\ UNCHANGED auxVars

\* parseProjects in the calling process: one project per step, read as the
\* directory is at that moment.
SeqParse(r) ==
  /\ refresh[r].pc = "seq"
  /\ LET rec == refresh[r]
         projectId == rec.projectsToParse[rec.i]
         summary == parseProjectDirectory(projectId, dirVer[projectId])
         rec1 == IF summary # NullSummary
                 THEN [rec EXCEPT !.parsedProjects = Append(@, summary)]
                 ELSE rec
     IN refresh' = [refresh EXCEPT ![r] =
          IF rec.i < Len(rec.projectsToParse)
          THEN [rec1 EXCEPT !.i = rec.i + 1]
          ELSE ContinueUpdate(projectDirs,
                              [rec1 EXCEPT !.usedWorkers = FALSE], 1)]
  /\ UNCHANGED <<projectDirs, dirMtime, dirVer, clock, pendingChanges, cache,
                 cachedData, initializationPromise, started, published,
                 callers, watcherInitialized, sseLog>>
  /\ UNCHANGED auxVars

\* A worker process parses the next project of its chunk, read as the
\* directory is at that moment. After the last one it sends its message:
\* child.on('message') resolves the worker's promise and, when it was the
\* last one pending, Promise.all resolves and the results are flattened.
WorkerParse(r, w) ==
  /\ refresh[r].pc = "workers"
  /\ w \in DOMAIN refresh[r].workers
  /\ LET wk == refresh[r].workers[w]
         projectId == wk.chunk[wk.pos]
         summary == parseProjectDirectory(projectId, dirVer[projectId])
         last == (wk.pos = Len(wk.chunk))
         wk1 == [wk EXCEPT !.pos = wk.pos + 1,
                           !.results = IF summary # NullSummary
                                       THEN Append(@, summary) ELSE @,
                           !.status = IF last THEN "resolved" ELSE @]
         ws == [refresh[r].workers EXCEPT ![w] = wk1]
         rec == [refresh[r] EXCEPT !.workers = ws]
     IN /\ wk.status = "running"
        /\ refresh' = [refresh EXCEPT ![r] =
             IF \A v \in DOMAIN ws : ws[v].status = "resolved"
             THEN ContinueUpdate(projectDirs,
                    [rec EXCEPT !.parsedProjects = FlatResults(ws),
                                !.usedWorkers = TRUE, !.workers = <<>>], 1)
             ELSE rec]
  /\ UNCHANGED <<projectDirs, dirMtime, dirVer, clock, pendingChanges, cache,
                 cachedData, initializationPromise, started, published,
                 callers, watcherInitialized, sseLog>>
  /\ UNCHANGED auxVars

\* A fallback that keeps what the workers had already delivered.
FallbackKeepingWorkerResults(rec) ==
  [rec EXCEPT !.pc = "seq", !.i = 1, !.workers = <<>>,
              !.parsedProjects = FlatResults(rec.workers),
              !.workerFailed = TRUE]

\* The catch block of parseAllSessionsIndex: parsedProjects is assigned the
\* result of parseProjectsSingleThreaded(projectsToParse) alone.
FallbackStart(rec) ==
  [rec EXCEPT !.pc = "seq", !.i = 1, !.workers = <<>>,
              !.parsedProjects = <<>>, !.workerFailed = TRUE]

\* child.on('error'), or child.on('exit') with a non-zero code, before any
\* message: the promise rejects, Promise.all rejects, the catch block starts
\* parseProjectsSingleThreaded over the whole stale set. What the other
\* workers still send is dropped.
WorkerReject(r, w) ==
  /\ refresh[r].pc = "workers"
  /\ w \in DOMAIN refresh[r].workers
  /\ refresh[r].workers[w].status = "running"
  /\ refresh' = [refresh EXCEPT ![r] = FallbackStart(@)]
  /\ UNCHANGED <<projectDirs, dirMtime, dirVer, clock, pendingChanges, cache,
                 cachedData, initializationPromise, started, published,
                 callers, watcherInitialized, sseLog>>
  /\ UNCHANGED auxVars

\* child.on('exit') with code 0 or null (killed by a signal) before any
\* message: the handler does nothing, the promise stays pending.
WorkerSilentExit(r, w) ==
  /\ refresh[r].pc = "workers"
  /\ w \in DOMAIN refresh[r].workers
  /\ refresh[r].workers[w].status = "running"
  /\ refresh' = [refresh EXCEPT ![r].workers[w].status = "exited"]
  /\ UNCHANGED <<projectDirs, dirMtime, dirVer, clock, pendingChanges, cache,
                 cachedData, initializationPromise, started, published,
                 callers, watcherInitialized, sseLog>>
  /\ UNCHANGED auxVars

\* The stat of updateCache has returned for parsedProjects[i]: store the
\* entry under the id that find yielded.
UpdateDone(r) ==
  /\ refresh[r].pc = "update"
  /\ LET rec == refresh[r]
         summary == rec.parsedProjects[rec.i]
         projectId == FindProjectId(projectDirs, summary)
     IN /\ cache' = updateCache(cache, projectId, dirMtime[projectId], summary)
        /\ refresh' = [refresh EXCEPT
                         ![r] = ContinueUpdate(projectDirs, rec, rec.i + 1)]
  /\ UNCHANGED <<projectDirs, dirMtime, dirVer, clock, pendingChanges,
                 cachedData, initializationPromise, started, published,
                 callers, watcherInitialized, sseLog>>
  /\ UNCHANGED auxVars

\* ----------------------------------------------------- refreshData, end
\* What parseStatsCache hands back: a usable stats object, null (file
\* missing or not JSON), or a JSON object without the expected fields.
StatsOutcomes == {"ok", "null", "malformed"}

\* Token total of one category as accumulated from stats.modelUsage
StatsTokens(stats, cat) == IF stats = "ok" THEN 5 ELSE 0

SumCost(projectsList) ==
  SumSeq([n \in 1..Len(projectsList) |-> EstimatedCost(projectsList[n])])

\* Totals left as accumulated from the stats cache.
TokenTotalFromStats(stats, projectsList, cat) == StatsTokens(stats, cat)

\* The totals are first accumulated from the stats cache, then overridden
\* by the sums over the project list.
TokenTotal(stats, projectsList, cat) ==
  LET fromStats == StatsTokens(stats, cat)
      fromProjects ==
        SumSeq([n \in 1..Len(projectsList) |-> TotalTokens(projectsList[n], cat)])
  IN fromProjects

BuildResult(stats, projectsList, r, seq) ==
  [by |-> r, seq |-> seq, projects |-> projectsList,
   totalEstimatedCost |-> SumCost(projectsList),
   totalInputTokens |-> TokenTotal(stats, projectsList, "input"),
   totalOutputTokens |-> TokenTotal(stats, projectsList, "output"),
   totalCacheReadTokens |-> TokenTotal(stats, projectsList, "cacheRead"),
   totalCacheCreationTokens |->
      TokenTotal(stats, projectsList, "cacheCreation")]

\* The broadcast issued before the assignment to cachedData.
BroadcastBeforeInstall(old, result) ==
  [data |-> result,
   event |-> [name |-> "data-refresh", by |-> result.by,
              current |-> old.seq]]

\* cachedData = result; sseManager.broadcast('data-refresh', ...): the new
\* value of cachedData and the event, which records the state that was
\* current when it was broadcast.
InstallAndBroadcast(old, result) ==
  [data |-> result,
   event |-> [name |-> "data-refresh", by |-> result.by,
              current |-> result.seq]]

\* Promise.all has settled: the rest of refreshData runs without suspension.
\* Object.entries(s.modelUsage) throws on a stats object without modelUsage.
Publish(r) ==
  /\ refresh[r].pc = "merged"
  /\ \E stats \in StatsOutcomes :
       IF stats = "malformed"
       THEN /\ refresh' = [refresh EXCEPT ![r] = [IdleRefresh EXCEPT !.pc = "failed"]]
            /\ UNCHANGED <<cachedData, published, sseLog>>
       ELSE LET result == BuildResult(stats, refresh[r].allProjects, r,
                                      published + 1)
                out == InstallAndBroadcast(cachedData, result)
            IN /\ cachedData' = out.data
               /\ published' = published + 1
               /\ sseLog' = Append(sseLog, out.event)
               /\ refresh' = [refresh EXCEPT ![r] = [IdleRefresh EXCEPT !.pc = "done"]]
  /\ UNCHANGED <<projectDirs, dirMtime, dirVer, clock, pendingChanges, cache,
                 initializationPromise, started, callers, watcherInitialized>>
  /\ UNCHANGED auxVars

\* ---------------------------------------------------------- specification
Next ==
  \/ \E p \in Projects : Write(p)
  \/ \E p \in Projects : WatcherChange(p)
  \/ WatcherStatsChange
  \/ RegisterStart
  \/ \E c \in Getters : GetDashboardData(c)
  \/ \E c \in Callers : Resume(c)
  \/ \E r \in Refreshes : AfterReaddir(r)
  \/ \E r \in Refreshes : StatDone(r)
  \/ \E r \in Refreshes : SeqParse(r)
  \/ \E r \in Refreshes, w \in 1..MaxWorkers : WorkerParse(r, w)
  \/ \E r \in Refreshes, w \in 1..MaxWorkers : WorkerReject(r, w)
  \/ \E r \in Refreshes, w \in 1..MaxWorkers : WorkerSilentExit(r, w)
  \/ \E r \in Refreshes : UpdateDone(r)
  \/ \E r \in Refreshes : Publish(r)

Spec == Init /\ [][Next]_vars

\* Fairness of the event loop: a continuation whose I/O has completed runs,
\* a worker that is still alive goes on parsing, a settled promise resumes
\* its awaiters. Nothing obliges the environment to write, to request or to
\* make a worker fail.
Progress ==
  \/ \E c \in Callers : Resume(c)
  \/ \E r \in Refreshes : AfterReaddir(r)
  \/ \E r \in Refreshes : StatDone(r)
  \/ \E r \in Refreshes : SeqParse(r)
  \/ \E r \in Refreshes, w \in 1..MaxWorkers : WorkerParse(r, w)
  \/ \E r \in Refreshes : UpdateDone(r)
  \/ \E r \in Refreshes : Publish(r)

FairSpec == Init /\ [][Next]_vars /\ WF_vars(Progress)

\* ------------------------------------------------------------- properties
InFlight == {r \in Refreshes : refresh[r].pc \notin {"idle", "done", "failed"}}

\* C1: at most one refreshData is executing at any time; a trigger that
\* arrives while a refresh is in flight does not start a second run.
C1_SingleRefreshInFlight == Cardinality(InFlight) <= 1

\* C2: a refresh triggered earlier never replaces the state published by a
\* refresh triggered later: whenever refresh r has published, the current
\* state comes from r or from a refresh triggered after r.
C2_LaterTriggerWins ==
  \A r \in Refreshes : refresh[r].pc = "done" => cachedData.by >= r

\* C3: getDashboardData returns only a published state, the latest one at
\* the moment it returns; a call made before any state was published ends
\* only when the initialization it awaits has settled (it throws only if
\* that refresh failed); once a state is published cachedData never goes
\* back to null and a call returns at once.
C3_GetBlocksThenReturnsLatest ==
  /\ (cachedData = NoData) <=> (published = 0)
  /\ cachedData.seq = published
  /\ \A c \in Getters :
       /\ callers[c].pc = "returned" =>
            /\ callers[c].result # NoData
            /\ callers[c].result.seq = callers[c].pubAtRet
            /\ callers[c].pubAtRet >= 1
       /\ callers[c].pc = "threw" =>
            /\ callers[c].pubAtCall = 0
            /\ callers[c].promise # 0
            /\ refresh[callers[c].promise].pc = "failed"
       /\ callers[c].pc = "await" =>
            /\ callers[c].pubAtCall = 0
            /\ callers[c].promise # 0
       /\ callers[c].pubAtCall >= 1 =>
            /\ callers[c].pc = "returned"
            /\ callers[c].pubAtRet = callers[c].pubAtCall

\* A call made before any publication has waited for the initialization and
\* returned its state.
C3_Witness ==
  \E c \in Getters :
    /\ callers[c].pc = "returned"
    /\ callers[c].promise # 0
    /\ callers[c].pubAtCall = 0
    /\ callers[c].result.seq >= 1

\* C4: when a 'data-refresh' event is broadcast, the state of the refresh
\* that emits it is already the current one; a getDashboardData called
\* after the n-th event returns the n-th published state or a later one.
C4_BroadcastAfterInstall ==
  /\ \A n \in 1..Len(sseLog) : sseLog[n].current = n
  /\ \A c \in Getters :
       callers[c].pc = "returned" =>
         \A n \in 1..callers[c].eventsAtCall :
            callers[c].result.seq >= sseLog[n].current

\* A call made after a notification has returned.
C4_Witness ==
  \E c \in Getters :
    /\ callers[c].pc = "returned"
    /\ callers[c].eventsAtCall >= 2
    /\ callers[c].result.by = sseLog[callers[c].eventsAtCall].by

Elems(seq) == {seq[n] : n \in 1..Len(seq)}
Sources(list) == [n \in 1..Len(list) |-> list[n].src]
NoDuplicates(seq) ==
  \A m, n \in 1..Len(seq) : m # n => seq[m] # seq[n]

\* C5: once a worker of a parse invocation has failed, what the invocation
\* returns was produced by the sequential parse alone: no worker result is
\* in it, it holds at most one summary per stale project, in the order of
\* the stale set, and a summary for every stale project that has logs.
C5_FallbackCoversStaleSetOnce ==
  \A r \in Refreshes :
    (refresh[r].workerFailed /\ refresh[r].pc \in {"update", "merged"}) =>
      LET rec == refresh[r]
          srcs == Sources(rec.parsedProjects)
      IN /\ ~rec.usedWorkers
         /\ rec.workers = <<>>
         /\ srcs = SelectSeq(rec.projectsToParse, LAMBDA q : q \in Elems(srcs))
         /\ \A q \in Elems(rec.projectsToParse) :
              q \notin MayBeEmpty => q \in Elems(srcs)

\* A refresh whose worker failed has finished parsing two stale projects.
C5_Witness ==
  \E r \in Refreshes :
    /\ refresh[r].workerFailed
    /\ refresh[r].pc = "merged"
    /\ Len(refresh[r].parsedProjects) = 2

\* C6: a refresh that waits for its workers eventually stops waiting, also
\* when a worker never sends a result.
C6_WorkerWaitEnds ==
  \A r \in Refreshes :
    (refresh[r].pc = "workers") ~> (refresh[r].pc # "workers")

\* C7: a cache entry whose summary was read from an older content than the
\* directory has now (a write came after the parse read the directory) is
\* stale: needsParsing returns true for it.
C7_WriteDuringParseStaysStale ==
  \A p \in DOMAIN cache :
    (cache[p].summary.src = p /\ cache[p].summary.ver < dirVer[p])
      => needsParsing(cache, dirMtime, p)

\* C8: while the directory of P is not modified and P is not invalidated,
\* an entry of P that is current stays current and keeps its summary,
\* whatever else a step does.
C8_CurrentEntryKept ==
  [][\A p \in Projects :
       (/\ p \in DOMAIN cache
        /\ ~needsParsing(cache, dirMtime, p)
        /\ dirMtime'[p] = dirMtime[p]
        /\ p \in DOMAIN cache')
       => /\ cache'[p].summary = cache[p].summary
          /\ ~needsParsing(cache', dirMtime', p)]_vars

\* C9: in the list a refresh produces, and in the one it publishes, no
\* project directory contributes more than one summary, and the total cost
\* is the cost of the cached summaries plus that of the fresh ones.
C9_OneSummaryPerDirectory ==
  /\ \A r \in Refreshes :
       refresh[r].pc = "merged" =>
         /\ NoDuplicates(Sources(refresh[r].allProjects))
         /\ SumCost(refresh[r].allProjects)
              = SumCost(refresh[r].cachedSummaries)
                + SumCost(refresh[r].parsedProjects)
  /\ NoDuplicates(Sources(cachedData.projects))

RECURSIVE SumOver(_, _, _)
SumOver(list, F(_), n) ==
  IF n = 0 THEN 0 ELSE F(list[n]) + SumOver(list, F, n - 1)

TotalsMatch(d) ==
  LET In(x) == TotalTokens(x, "input")
      Out(x) == TotalTokens(x, "output")
      Rd(x) == TotalTokens(x, "cacheRead")
      Cr(x) == TotalTokens(x, "cacheCreation")
      n == Len(d.projects)
  IN /\ d.totalEstimatedCost = SumOver(d.projects, EstimatedCost, n)
     /\ d.totalInputTokens = SumOver(d.projects, In, n)
     /\ d.totalOutputTokens = SumOver(d.projects, Out, n)
     /\ d.totalCacheReadTokens = SumOver(d.projects, Rd, n)
     /\ d.totalCacheCreationTokens = SumOver(d.projects, Cr, n)

\* C10: in the current state, and in every state a reader was handed, the
\* total cost and the four token totals are the sums over that state's own
\* project list.
C10_TotalsAreSumsOverProjects ==
  /\ TotalsMatch(cachedData)
  /\ \A c \in Getters : TotalsMatch(callers[c].result)

\* A published state with two projects whose totals differ from what the
\* stats cache holds, handed to a reader.
C10_Witness ==
  /\ Len(cachedData.projects) = 2
  /\ cachedData.totalInputTokens # StatsTokens("ok", "input")
  /\ \E c \in Getters : callers[c].pc = "returned"
                        /\ Len(callers[c].result.projects) = 2

\* ===================================================================
\* refreshData: the DashboardData as a function of the parsers' results
\* ===================================================================
\* ------------------------------------------------------------- bounds
MaxModels == 2
MaxListed == 2

\* The pipeline and the other subsystems at rest.
PipelineOff ==
  /\ projectDirs = <<>>
  /\ dirMtime = [p \in Projects |-> 0]
  /\ dirVer = [p \in Projects |-> 0]
  /\ clock = 0
  /\ pendingChanges = {}
  /\ cache = [p \in {} |-> 0]
  /\ cachedData = NoData
  /\ initializationPromise = 0
  /\ refresh = [r \in Refreshes |-> IdleRefresh]
  /\ started = 0
  /\ published = 0
  /\ callers = [c \in Callers |-> IdleCaller]
  /\ watcherInitialized = FALSE
  /\ sseLog = <<>>

\* Keys of stats.modelUsage: two spellings of one model, a second model
\* and a name no pricing entry matches.
ModelNames ==
  { <<"O", "p", "u", "s">>, <<"o", "p", "u", "s", "4">>,
    <<"h", "a", "i", "k", "u">>, <<"g", "p", "t">> }

\* String.prototype.toLowerCase
toLowerCase(str) ==
  [n \in 1..Len(str) |->
     CASE str[n] = "O" -> "o" [] str[n] = "H" -> "h" [] str[n] = "A" -> "a"
       [] str[n] = "I" -> "i" [] str[n] = "K" -> "k" [] str[n] = "U" -> "u"
       [] OTHER -> str[n]]

Opus == <<"o", "p", "u", "s">>
Sonnet == <<"s", "o", "n", "n", "e", "t">>
Haiku == <<"h", "a", "i", "k", "u">>

normalizeModelName(model) ==
  LET lower == toLowerCase(model)
  IN IF Includes(lower, Opus)
       THEN <<"c", "l", "a", "u", "d", "e", "-">> \o Opus \o <<"-", "4", ".", "5">>
     ELSE IF Includes(lower, Sonnet)
       THEN <<"c", "l", "a", "u", "d", "e", "-">> \o Sonnet \o <<"-", "4", ".", "5">>
     ELSE IF Includes(lower, Haiku)
       THEN <<"c", "l", "a", "u", "d", "e", "-">> \o Haiku \o <<"-", "4", ".", "5">>
     ELSE model

\* Rates in cents per million tokens.
PRICING ==
  [opus |-> [inputRate |-> 500, outputRate |-> 2500,
             cacheReadRate |-> 50, cacheCreateRate |-> 625],
   sonnet |-> [inputRate |-> 300, outputRate |-> 1500,
               cacheReadRate |-> 30, cacheCreateRate |-> 375],
   haiku |-> [inputRate |-> 100, outputRate |-> 500,
              cacheReadRate |-> 10, cacheCreateRate |-> 125]]

\* A match on the model string as given.
matchPricingAsWritten(model) ==
  IF Includes(model, Opus) THEN PRICING.opus
  ELSE IF Includes(model, Haiku) THEN PRICING.haiku
  ELSE PRICING.sonnet

matchPricing(model) ==
  LET m == toLowerCase(model)
  IN IF Includes(m, Opus) THEN PRICING.opus
     ELSE IF Includes(m, Haiku) THEN PRICING.haiku
     ELSE PRICING.sonnet

\* A cost in which cache reads are credited instead of charged.
calculateCostCreditingReads(tokens, model) ==
  LET p == matchPricing(model)
  IN tokens.input * p.inputRate
     + tokens.output * p.outputRate
     - tokens.cacheRead * p.cacheReadRate
     + tokens.cacheCreation * p.cacheCreateRate

\* Token counts are in millions, the cost in cents.
calculateCost(tokens, model) ==
  LET p == matchPricing(model)
  IN tokens.input * p.inputRate
     + tokens.output * p.outputRate
     + (IF tokens.cacheRead # 0 /\ p.cacheReadRate # 0
        THEN tokens.cacheRead * p.cacheReadRate ELSE 0)
     + (IF tokens.cacheCreation # 0 /\ p.cacheCreateRate # 0
        THEN tokens.cacheCreation * p.cacheCreateRate ELSE 0)

\* The usage recorded for one model in stats-cache.json.
Usages ==
  { [inputTokens |-> 1, outputTokens |-> 0,
     cacheReadInputTokens |-> 0, cacheCreationInputTokens |-> 0],
    [inputTokens |-> 2, outputTokens |-> 1,
     cacheReadInputTokens |-> 4, cacheCreationInputTokens |-> 0] }

UsageTokens(usage) ==
  [input |-> usage.inputTokens, output |-> usage.outputTokens,
   cacheRead |-> usage.cacheReadInputTokens,
   cacheCreation |-> usage.cacheCreationInputTokens]

\* What parseStatsCache resolves to: null, an object without modelUsage,
\* or a stats object.
NoStats == [kind |-> "null"]
NoModelUsage == [kind |-> "object"]
StatsInputs ==
  {NoStats, NoModelUsage}
  \cup { [kind |-> "stats", modelUsage |-> mu] :
         mu \in UNION { [S -> Usages] :
                        S \in {T \in SUBSET ModelNames :
                                 Cardinality(T) <= MaxModels} } }

emptyStats == [kind |-> "stats", modelUsage |-> <<>>]

\* What parseAllSessionsIndex resolves to: the sorted list of summaries.
SummaryInputs == { parseProjectDirectory(p, v) : p \in Projects, v \in 1..2 }
ProjectLists ==
  { MergeProjects(<<>>, l) :
    l \in { m \in UNION { [1..n -> SummaryInputs] : n \in 0..MaxListed } :
            NoDuplicates(Sources(m)) } }

\* The sum of f[x] over the x in S.
RECURSIVE SumSet(_, _)
SumSet(S, f) ==
  IF S = {} THEN 0
  ELSE LET x == CHOOSE y \in S : TRUE IN f[x] + SumSet(S \ {x}, f)

\* The loop over Object.entries(s.modelUsage): one entry per normalized
\* name, holding the sums over the keys that normalize to it.
ModelBreakdown(s) ==
  LET keys == DOMAIN s.modelUsage
      names == { normalizeModelName(k) : k \in keys }
      Of(n) == { k \in keys : normalizeModelName(k) = n }
  IN [n \in names |->
        LET In == [k \in keys |-> UsageTokens(s.modelUsage[k]).input]
            Out == [k \in keys |-> UsageTokens(s.modelUsage[k]).output]
            Rd == [k \in keys |-> UsageTokens(s.modelUsage[k]).cacheRead]
            Cr == [k \in keys |-> UsageTokens(s.modelUsage[k]).cacheCreation]
            Cost == [k \in keys |->
                       calculateCost(UsageTokens(s.modelUsage[k]), n)]
        IN [tokenUsage |-> [input |-> SumSet(Of(n), In),
                            output |-> SumSet(Of(n), Out),
                            cacheRead |-> SumSet(Of(n), Rd),
                            cacheCreation |-> SumSet(Of(n), Cr)],
            estimatedCost |-> SumSet(Of(n), Cost)]]

\* refreshData after Promise.all: "threw" when Object.entries is applied
\* to an undefined modelUsage, else the result object.
RefreshResult(stats, projects) ==
  LET s == IF stats = NoStats THEN emptyStats ELSE stats
      projectsList == projects
      outcome == IF s = NoModelUsage THEN "malformed"
                 ELSE IF stats = NoStats THEN "null" ELSE "ok"
  IN IF outcome = "malformed" THEN [threw |-> TRUE]
     ELSE [threw |-> FALSE,
           modelBreakdown |-> ModelBreakdown(s),
           data |-> BuildResult(outcome, projectsList, 1, 1)]

AggInit ==
  /\ aggIn \in [stats : StatsInputs, projects : ProjectLists]
  /\ aggOut = NoResult
  /\ PipelineOff /\ TrackerOff /\ SseOff /\ DecoderOff /\ ExtraOff

RefreshData ==
  /\ aggOut = NoResult
  /\ aggOut' = RefreshResult(aggIn.stats, aggIn.projects)
  /\ UNCHANGED <<aggIn, pipelineVars, extraVars, trackerVars, sseVars, decoderVars>>

AggNext == RefreshData

AggSpec == AggInit /\ [][AggNext]_vars

ModelCostSum(out) ==
  LET Cost == [n \in DOMAIN out.modelBreakdown |->
                 out.modelBreakdown[n].estimatedCost]
  IN SumSet(DOMAIN out.modelBreakdown, Cost)

\* C11: in every state refreshData publishes, the estimatedCost entries of
\* modelBreakdown add up to totalEstimatedCost.
C11_ModelCostsAddUpToTotal ==
  (aggOut # NoResult /\ ~aggOut.threw)
    => ModelCostSum(aggOut) = aggOut.data.totalEstimatedCost

\* C12: no refreshData invocation ends by throwing, whatever the stats
\* file and the project directories hold.
C12_RefreshNeverThrows == \A r \in Refreshes : refresh[r].pc # "failed"

\* ===================================================================
\* session-tracker.ts: the session tracker and the automatic shutdown
\* ===================================================================
\* One tick is 2500 ms: the interval of checkState is two ticks.
PollInterval == 2

\* ------------------------------------------------------------- bounds
MaxObserved == 3

\* The configurations loadConfig may return, in ticks: an idle timeout
\* below and above the interval of checkState, a short and a long grace
\* period, shutdown enabled or not.
IdleTimeouts == {1, 3}
GracePeriods == {1, 3}
Configs ==
  [sessionIdleTimeoutMs : IdleTimeouts, gracePeriodMs : GracePeriods,
   disableShutdown : BOOLEAN]

\* The paths the watcher reports, as directories, base name and extension.
ClaudeDir == <<"home", ".claude">>
FilePaths ==
  { [dirs |-> ClaudeDir \o <<"projects", "A">>, name |-> "s1", ext |-> "jsonl"],
    [dirs |-> ClaudeDir \o <<"projects", "A", "sessions">>, name |-> "s2",
     ext |-> "jsonl"],
    [dirs |-> ClaudeDir \o <<"projects", "A">>, name |-> "sessions-index",
     ext |-> "jsonl"],
    [dirs |-> ClaudeDir \o <<"projects", "A", "subagents">>, name |-> "s3",
     ext |-> "jsonl"],
    [dirs |-> ClaudeDir \o <<"projects", "-home-sessions-index">>,
     name |-> "s4", ext |-> "jsonl"],
    [dirs |-> ClaudeDir, name |-> "history", ext |-> "jsonl"],
    [dirs |-> ClaudeDir, name |-> "stats-cache", ext |-> "json"] }

\* The regular expression of extractSessionInfo: .claude/projects/<project>/
\* then optionally sessions/, then <session>.jsonl at the end of the path.
NoSession == <<>>
extractSessionInfo(filePath) ==
  LET d == filePath.dirs
      n == Len(d)
      Direct == n >= 3 /\ d[n - 2] = ".claude" /\ d[n - 1] = "projects"
      Nested == n >= 4 /\ d[n - 3] = ".claude" /\ d[n - 2] = "projects"
                /\ d[n] = "sessions"
  IN IF filePath.ext # "jsonl" THEN NoSession
     ELSE IF ~(Direct \/ Nested) THEN NoSession
     ELSE IF filePath.name = "sessions-index" THEN NoSession
     ELSE IF Direct THEN <<d[n], filePath.name>>
     ELSE <<d[n - 1], filePath.name>>

\* name.includes('sessions-index'), for the names that occur in FilePaths.
includesSessionsIndex(name) ==
  name \in {"sessions-index", "-home-sessions-index"}

\* watcher: filePath.endsWith('.jsonl') && !filePath.includes('sessions-index')
WatcherTracks(filePath) ==
  /\ filePath.ext = "jsonl"
  /\ ~includesSessionsIndex(filePath.name)
  /\ \A n \in 1..Len(filePath.dirs) : ~includesSessionsIndex(filePath.dirs[n])

SessionKeys == { extractSessionInfo(f) : f \in FilePaths } \ {NoSession}

\* A written session-log file whose write the tracker records.
IsSessionWrite(f) == WatcherTracks(f) /\ extractSessionInfo(f) # NoSession

\* ----------------------------------------------------- tracker methods
\* Each method is a function from the tracker's fields to its fields.
Tracker ==
  [state |-> state, sessions |-> sessions, graceTimer |-> graceTimer,
   graceStartTime |-> graceStartTime, transitions |-> <<>>]

transitionTo(t, newState) ==
  IF t.state # newState
  THEN [t EXCEPT !.state = newState,
                 !.transitions = Append(@, [from |-> t.state, to |-> newState])]
  ELSE t

\* A cancelGracePeriod that leaves the timer pending.
cancelKeepsTimer(t) == t

\* clearTimeout(graceTimer); graceTimer = null; graceStartTime = null
cancelGracePeriod(t) ==
  IF t.graceTimer # "null"
  THEN [t EXCEPT !.graceTimer = "null", !.graceStartTime = -1]
  ELSE t

startGracePeriod(t) ==
  LET c == cancelGracePeriod(t)
      g == transitionTo([c EXCEPT !.graceStartTime = 0], "GRACE_PERIOD")
  IN [g EXCEPT !.graceTimer = "armed"]

hasActiveSessions(t) == DOMAIN t.sessions # {}

\* A sweep that removes nothing.
cleanupKeepsAll(t, idleTimeoutMs) == t

\* Deletes the records with now - lastActivity > idleTimeoutMs.
cleanupIdleSessions(t, idleTimeoutMs) ==
  LET keep == { k \in DOMAIN t.sessions : ~(t.sessions[k] > idleTimeoutMs) }
  IN [t EXCEPT !.sessions = [k \in keep |-> t.sessions[k]]]

\* A sweep that also begins the grace period from STARTING.
checkStateIdleFromStart(t, cfg) ==
  LET c == cleanupIdleSessions(t, cfg.sessionIdleTimeoutMs)
  IN IF hasActiveSessions(c) /\ c.state = "STARTING"
       THEN transitionTo(c, "ACTIVE")
     ELSE IF hasActiveSessions(c) /\ c.state = "GRACE_PERIOD"
       THEN transitionTo(cancelGracePeriod(c), "ACTIVE")
     ELSE IF ~hasActiveSessions(c) /\ c.state \in {"ACTIVE", "STARTING"}
       THEN startGracePeriod(transitionTo(c, "IDLE"))
     ELSE c

checkState(t, cfg) ==
  LET c == cleanupIdleSessions(t, cfg.sessionIdleTimeoutMs)
  IN IF hasActiveSessions(c) /\ c.state = "STARTING"
       THEN transitionTo(c, "ACTIVE")
     ELSE IF hasActiveSessions(c) /\ c.state = "GRACE_PERIOD"
       THEN transitionTo(cancelGracePeriod(c), "ACTIVE")
     ELSE IF ~hasActiveSessions(c) /\ c.state = "ACTIVE"
       THEN startGracePeriod(transitionTo(c, "IDLE"))
     ELSE c

\* An onFileChange that resumes from whatever state the tracker is in.
onFileChangeFromAnyState(t, filePath) ==
  LET key == extractSessionInfo(filePath)
      rec == [k \in DOMAIN t.sessions \cup {key} |->
                IF k = key THEN 0 ELSE t.sessions[k]]
      set == [t EXCEPT !.sessions = rec]
  IN IF key = NoSession THEN t
     ELSE transitionTo(cancelGracePeriod(set), "ACTIVE")

onFileChange(t, filePath) ==
  LET key == extractSessionInfo(filePath)
      rec == [k \in DOMAIN t.sessions \cup {key} |->
                IF k = key THEN 0 ELSE t.sessions[k]]
      set == [t EXCEPT !.sessions = rec]
  IN IF key = NoSession THEN t
     ELSE IF set.state = "GRACE_PERIOD"
       THEN transitionTo(cancelGracePeriod(set), "ACTIVE")
     ELSE set

Exited == shutdown.pc = "exited"

Install(t) ==
  /\ state' = t.state
  /\ sessions' = t.sessions
  /\ graceTimer' = t.graceTimer
  /\ graceStartTime' = t.graceStartTime
  /\ transitions' = t.transitions

\* ------------------------------------------------------ tracker, steps
\* new SessionTracker(): the interval is set, nothing else is pending.
TrackerInit ==
  /\ config \in Configs
  /\ state = "STARTING"
  /\ sessions = <<>>
  /\ graceTimer = "null"
  /\ graceStartTime = -1
  /\ nextCheck = PollInterval
  /\ shutdown = NoShutdown
  /\ transitions = <<>>
  /\ quiet = 0
  /\ observed = 0
  /\ reported = NoPath
  /\ PipelineOff /\ AggOff /\ SseOff /\ DecoderOff /\ ExtraOff

TimerDue == graceTimer = "armed" /\ graceStartTime >= config.gracePeriodMs

\* One tick passes; a callback that is due runs before the next tick.
Tick ==
  /\ ~Exited
  /\ nextCheck > 0
  /\ ~TimerDue
  /\ nextCheck' = nextCheck - 1
  /\ sessions' = [k \in DOMAIN sessions |->
                    Min(sessions[k] + 1, config.sessionIdleTimeoutMs + 1)]
  /\ graceStartTime' = IF graceStartTime < 0 THEN graceStartTime
                       ELSE Min(graceStartTime + 1, config.gracePeriodMs)
  /\ quiet' = Min(quiet + 1, config.gracePeriodMs)
  /\ transitions' = <<>>
  /\ reported' = NoPath
  /\ UNCHANGED <<config, state, graceTimer, shutdown, observed>>
  /\ UNCHANGED <<pipelineVars, extraVars, aggVars, sseVars, decoderVars>>

\* The watcher's change handler up to the call of invalidateCache.
FileChange(f) ==
  /\ ~Exited
  /\ IsSessionWrite(f) => observed < MaxObserved
  /\ IF WatcherTracks(f) THEN Install(onFileChange(Tracker, f))
     ELSE Install(Tracker)
  /\ quiet' = IF IsSessionWrite(f) THEN 0 ELSE quiet
  /\ observed' = IF IsSessionWrite(f) THEN observed + 1 ELSE observed
  /\ reported' = f
  /\ UNCHANGED <<config, nextCheck, shutdown>>
  /\ UNCHANGED <<pipelineVars, extraVars, aggVars, sseVars, decoderVars>>

\* setInterval(() => this.checkState(), 5000)
CheckState ==
  /\ ~Exited
  /\ nextCheck = 0
  /\ Install(checkState(Tracker, config))
  /\ nextCheck' = PollInterval
  /\ reported' = NoPath
  /\ UNCHANGED <<config, shutdown, quiet, observed>>
  /\ UNCHANGED <<pipelineVars, extraVars, aggVars, sseVars, decoderVars>>

\* An initiateShutdown that does not look at the flag.
ShutdownIgnoringFlag(t, cfg) ==
  [tracker |-> transitionTo([t EXCEPT !.graceTimer = "fired"], "SHUTTING_DOWN"),
   shutdown |-> [pc |-> "import", log |-> <<"SHUTTING_DOWN">>,
                 failed |-> FALSE]]

\* initiateShutdown up to its first await; the timer handle stays in
\* graceTimer after it has fired.
initiateShutdown(t, cfg) ==
  IF cfg.disableShutdown
  THEN [tracker |-> [t EXCEPT !.graceTimer = "fired"],
        shutdown |-> [NoShutdown EXCEPT !.pc = "skipped"]]
  ELSE [tracker |-> transitionTo([t EXCEPT !.graceTimer = "fired"],
                                 "SHUTTING_DOWN"),
        shutdown |-> [pc |-> "import", log |-> <<"SHUTTING_DOWN">>,
                      failed |-> FALSE]]

\* The callback of setTimeout(..., gracePeriodMs).
GraceTimerFire ==
  /\ ~Exited
  /\ TimerDue
  /\ LET r == initiateShutdown(Tracker, config)
     IN Install(r.tracker) /\ shutdown' = r.shutdown
  /\ reported' = NoPath
  /\ UNCHANGED <<config, nextCheck, quiet, observed>>
  /\ UNCHANGED <<pipelineVars, extraVars, aggVars, sseVars, decoderVars>>

\* A shutdown whose exit is scheduled only when nothing failed.
AfterTryNoFinally(sd, ok, done) ==
  IF ok THEN [sd EXCEPT !.pc = IF done THEN "exitTimer" ELSE "wait"]
  ELSE [sd EXCEPT !.pc = "caught", !.failed = TRUE]

\* try { ... } catch { log } finally { setTimeout(exit, 2000) }: where the
\* shutdown continues after a step of the try block.
AfterTry(sd, ok, done) ==
  IF ok
  THEN [sd EXCEPT !.pc = IF done THEN "exitTimer" ELSE "wait"]
  ELSE [sd EXCEPT !.pc = "exitTimer", !.failed = TRUE]

\* import('./sse-manager') settles; sseManager.broadcast('server-shutdown').
ShutdownBroadcast ==
  /\ shutdown.pc = "import"
  /\ \E ok \in BOOLEAN :
       shutdown' = AfterTry(
          IF ok THEN [shutdown EXCEPT !.log = Append(@, "broadcast")]
          ELSE shutdown, ok, FALSE)
  /\ transitions' = <<>>
  /\ reported' = NoPath
  /\ UNCHANGED <<config, state, sessions, graceTimer, graceStartTime,
                 nextCheck, quiet, observed>>
  /\ UNCHANGED <<pipelineVars, extraVars, aggVars, sseVars, decoderVars>>

\* The 1000 ms wait is over; import('./pid-manager'), pidManager.release().
ShutdownRelease ==
  /\ shutdown.pc = "wait"
  /\ \E ok \in BOOLEAN :
       shutdown' = AfterTry(
          IF ok THEN [shutdown EXCEPT !.log = Append(@, "release")]
          ELSE shutdown, ok, TRUE)
  /\ transitions' = <<>>
  /\ reported' = NoPath
  /\ UNCHANGED <<config, state, sessions, graceTimer, graceStartTime,
                 nextCheck, quiet, observed>>
  /\ UNCHANGED <<pipelineVars, extraVars, aggVars, sseVars, decoderVars>>

\* setTimeout(() => process.exit(0), 2000)
ProcessExit ==
  /\ shutdown.pc = "exitTimer"
  /\ shutdown' = [shutdown EXCEPT !.pc = "exited", !.log = Append(@, "exit")]
  /\ transitions' = <<>>
  /\ reported' = NoPath
  /\ UNCHANGED <<config, state, sessions, graceTimer, graceStartTime,
                 nextCheck, quiet, observed>>
  /\ UNCHANGED <<pipelineVars, extraVars, aggVars, sseVars, decoderVars>>

TrackerNext ==
  \/ Tick
  \/ \E f \in FilePaths : FileChange(f)
  \/ CheckState
  \/ GraceTimerFire
  \/ ShutdownBroadcast
  \/ ShutdownRelease
  \/ ProcessExit

TrackerSpec == TrackerInit /\ [][TrackerNext]_vars

\* Time passes, due timers and intervals run their callbacks, settled
\* imports and waits resume the shutdown. Nothing obliges a session to
\* write.
TrackerFairSpec ==
  /\ TrackerInit /\ [][TrackerNext]_vars
  /\ WF_vars(Tick)
  /\ WF_vars(CheckState)
  /\ WF_vars(GraceTimerFire)
  /\ WF_vars(ShutdownBroadcast)
  /\ WF_vars(ShutdownRelease)
  /\ WF_vars(ProcessExit)

\* ------------------------------------------------- tracker, properties
Move(a, b) == [from |-> a, to |-> b]

\* A step in which the watcher reports a write to a session log.
ObservedWrite == observed' # observed

\* A step in which the interval runs checkState.
SweepStep == nextCheck = 0 /\ nextCheck' = PollInterval

\* C13: with shutdown enabled, once a session-log write has been observed
\* and the writes stop, the tracker reaches SHUTTING_DOWN; it gets there
\* only along STARTING, ACTIVE, IDLE, GRACE_PERIOD, and a write observed
\* in GRACE_PERIOD takes it back to ACTIVE.
C13_LifecycleReachesShutdown ==
  /\ (observed >= 1 /\ ~config.disableShutdown) ~> (state = "SHUTTING_DOWN")
  /\ [][/\ \A n \in 1..Len(transitions') :
              transitions'[n] \in
                { Move("STARTING", "ACTIVE"), Move("ACTIVE", "IDLE"),
                  Move("IDLE", "GRACE_PERIOD"),
                  Move("GRACE_PERIOD", "ACTIVE"),
                  Move("GRACE_PERIOD", "SHUTTING_DOWN") }
        /\ (ObservedWrite /\ state = "GRACE_PERIOD") => state' = "ACTIVE"]_vars

\* C14: after a session-log write observed in STARTING the tracker becomes
\* ACTIVE, for every idle timeout.
C14_FirstWriteActivates ==
  (state = "STARTING" /\ observed >= 1) ~> (state = "ACTIVE")

AllIdle ==
  \A k \in DOMAIN sessions : sessions[k] > config.sessionIdleTimeoutMs

\* C15: a sweep in ACTIVE that finds every record older than the idle
\* timeout removes them all and goes through IDLE to GRACE_PERIOD with the
\* grace timer started, in that one call; no state between two operations
\* is IDLE.
C15_IdleSweepStartsGrace ==
  /\ [](state # "IDLE")
  /\ [][(SweepStep /\ state = "ACTIVE" /\ AllIdle) =>
          /\ DOMAIN sessions' = {}
          /\ transitions' = <<Move("ACTIVE", "IDLE"),
                              Move("IDLE", "GRACE_PERIOD")>>
          /\ state' = "GRACE_PERIOD"
          /\ graceTimer' = "armed"
          /\ graceStartTime' = 0]_vars

\* A sweep has just taken the tracker from ACTIVE to GRACE_PERIOD, long
\* after the last write.
C15_Witness ==
  /\ state = "GRACE_PERIOD"
  /\ transitions = <<Move("ACTIVE", "IDLE"), Move("IDLE", "GRACE_PERIOD")>>
  /\ graceTimer = "armed"
  /\ DOMAIN sessions = {}
  /\ quiet >= 1

\* C16: a session-log write observed in GRACE_PERIOD clears the timer and
\* makes the tracker ACTIVE; SHUTTING_DOWN is entered only from
\* GRACE_PERIOD, when the timer armed by the latest startGracePeriod has
\* run its full gracePeriodMs and no session-log write was observed for at
\* least that long.
C16_GraceCancelledByWrite ==
  [][/\ (ObservedWrite /\ state = "GRACE_PERIOD") =>
          (state' = "ACTIVE" /\ graceTimer' = "null")
     /\ (state # "SHUTTING_DOWN" /\ state' = "SHUTTING_DOWN") =>
          /\ state = "GRACE_PERIOD"
          /\ graceTimer = "armed"
          /\ graceStartTime = config.gracePeriodMs
          /\ quiet >= config.gracePeriodMs]_vars

\* A write has just cancelled a running grace period.
C16_Witness ==
  /\ state = "ACTIVE"
  /\ transitions = <<Move("GRACE_PERIOD", "ACTIVE")>>
  /\ graceTimer = "null"
  /\ quiet = 0
  /\ ~config.disableShutdown

ShutdownOrders ==
  { <<>>, <<"SHUTTING_DOWN">>, <<"SHUTTING_DOWN", "broadcast">>,
    <<"SHUTTING_DOWN", "broadcast", "release">>,
    <<"SHUTTING_DOWN", "broadcast", "release", "exit">>,
    <<"SHUTTING_DOWN", "broadcast", "exit">>,
    <<"SHUTTING_DOWN", "exit">> }

\* C17: with shutdown enabled the expiry of the grace timer makes the
\* tracker SHUTTING_DOWN; the broadcast, the release of the lock and the
\* exit follow in that order, all three when nothing fails, and the exit
\* follows in every case.
C17_ShutdownSequence ==
  /\ [](shutdown.log \in ShutdownOrders)
  /\ []((Exited /\ ~shutdown.failed) =>
          shutdown.log = <<"SHUTTING_DOWN", "broadcast", "release", "exit">>)
  /\ [][(TimerDue /\ ~config.disableShutdown /\ graceTimer' = "fired") =>
          (state' = "SHUTTING_DOWN"
           /\ shutdown'.log = <<"SHUTTING_DOWN">>)]_vars
  /\ (state = "SHUTTING_DOWN") ~> Exited

\* The process has exited although the release of the lock failed.
C17_Witness ==
  /\ Exited
  /\ shutdown.failed
  /\ shutdown.log = <<"SHUTTING_DOWN", "broadcast", "exit">>

\* C18: with disableShutdown set, the expiry of the grace timer changes
\* neither the state nor the sessions, nothing is broadcast or released,
\* the process does not exit, and a session-log write observed afterwards
\* makes the tracker ACTIVE.
C18_DisabledShutdownIsNoOp ==
  /\ [](config.disableShutdown =>
          (state # "SHUTTING_DOWN" /\ shutdown.log = <<>> /\ ~Exited))
  /\ [][(config.disableShutdown /\ TimerDue /\ graceTimer' = "fired") =>
          (state' = "GRACE_PERIOD" /\ sessions' = sessions)]_vars
  /\ [][(config.disableShutdown /\ graceTimer = "fired" /\ ObservedWrite) =>
          state' = "ACTIVE"]_vars

\* The timer of the only grace period so far has expired with shutdown
\* disabled, and the second write has made the tracker ACTIVE again.
C18_Witness ==
  /\ config.disableShutdown
  /\ shutdown.pc = "skipped"
  /\ state = "ACTIVE"
  /\ transitions = <<Move("GRACE_PERIOD", "ACTIVE")>>
  /\ observed = 2

\* ===================================================================
\* pid-manager.ts, class SSEManager: the subscribers of the event stream
\* ===================================================================
\* ------------------------------------------------------------- bounds
MaxClients == 3
MaxBroadcasts == 2

EventNames == {"data-refresh", "server-shutdown"}

\* `client-${this.nextClientId++}`: one stream per identifier ever issued.
nextClientId == Cardinality(DOMAIN delivered) + 1

Registered == Elems(clients)

SseInit ==
  /\ clients = <<>>
  /\ closed = {}
  /\ delivered = <<>>
  /\ broadcasts = <<>>
  /\ PipelineOff /\ AggOff /\ TrackerOff /\ DecoderOff /\ ExtraOff

\* GET /api/events, start(controller): addClient, then the welcome event
\* is enqueued on the new stream.
AddClient ==
  /\ nextClientId <= MaxClients
  /\ LET id == nextClientId
     IN /\ clients' = Append(clients, id)
        /\ delivered' = [c \in DOMAIN delivered \cup {id} |->
                           IF c = id THEN <<[name |-> "connected", seq |-> 0]>>
                           ELSE delivered[c]]
  /\ UNCHANGED <<closed, broadcasts>>
  /\ UNCHANGED <<pipelineVars, extraVars, aggVars, trackerVars, decoderVars>>

\* removeClient(clientId)
RemoveClient(id) ==
  /\ id \in Registered
  /\ clients' = SelectSeq(clients, LAMBDA c : c # id)
  /\ UNCHANGED <<closed, delivered, broadcasts>>
  /\ UNCHANGED <<pipelineVars, extraVars, aggVars, trackerVars, decoderVars>>

\* The stream of a client is cancelled or errored: from now on
\* controller.enqueue throws.
StreamClosed(id) ==
  /\ id \in DOMAIN delivered
  /\ id \notin closed
  /\ closed' = closed \cup {id}
  /\ UNCHANGED <<clients, delivered, broadcasts>>
  /\ UNCHANGED <<pipelineVars, extraVars, aggVars, trackerVars, decoderVars>>

\* A loop without the try/catch around sendToClient: the first throw ends
\* it.
RECURSIVE SendUntilThrow(_, _, _, _, _)
SendUntilThrow(cs, n, ev, streams, dead) ==
  IF n > Len(cs) THEN [streams |-> streams, dead |-> dead]
  ELSE IF cs[n] \in closed
    THEN [streams |-> streams, dead |-> Append(dead, cs[n])]
  ELSE SendUntilThrow(cs, n + 1, ev,
                      [streams EXCEPT ![cs[n]] = Append(@, ev)], dead)

\* for (const client of this.clients) { try { sendToClient } catch
\* { deadClients.push(client) } }: the streams and deadClients after the
\* clients from the n-th on have been visited.
RECURSIVE SendToAll(_, _, _, _, _)
SendToAll(cs, n, ev, streams, dead) ==
  IF n > Len(cs) THEN [streams |-> streams, dead |-> dead]
  ELSE IF cs[n] \in closed
    THEN SendToAll(cs, n + 1, ev, streams, Append(dead, cs[n]))
  ELSE SendToAll(cs, n + 1, ev,
                 [streams EXCEPT ![cs[n]] = Append(@, ev)], dead)

\* broadcast(eventName, data)
Broadcast(eventName) ==
  /\ Len(broadcasts) < MaxBroadcasts
  /\ LET ev == [name |-> eventName, seq |-> Len(broadcasts) + 1]
         sent == SendToAll(clients, 1, ev, delivered, <<>>)
     IN /\ delivered' = sent.streams
        /\ clients' = SelectSeq(clients, LAMBDA c : c \notin Elems(sent.dead))
        /\ broadcasts' = Append(broadcasts,
                                [name |-> eventName, dead |-> Elems(sent.dead)])
  /\ UNCHANGED closed
  /\ UNCHANGED <<pipelineVars, extraVars, aggVars, trackerVars, decoderVars>>

SseNext ==
  \/ AddClient
  \/ \E id \in 1..MaxClients : RemoveClient(id)
  \/ \E id \in 1..MaxClients : StreamClosed(id)
  \/ \E eventName \in EventNames : Broadcast(eventName)

SseSpec == SseInit /\ [][SseNext]_vars

\* C19: a broadcast appends the event once to the stream of every
\* registered client whose enqueue succeeds and keeps that client; a
\* registered client whose enqueue throws gets nothing and is removed; a
\* client that is not registered gets nothing; no stream holds an event
\* twice.
C19_BroadcastIsolatesFailures ==
  /\ [](\A c \in DOMAIN delivered : NoDuplicates(delivered[c]))
  /\ [][Len(broadcasts') = Len(broadcasts) + 1 =>
          LET ev == [name |-> broadcasts'[Len(broadcasts')].name,
                     seq |-> Len(broadcasts')]
          IN \A c \in DOMAIN delivered :
               IF c \in Registered /\ c \notin closed
               THEN /\ delivered'[c] = Append(delivered[c], ev)
                    /\ c \in Elems(clients')
               ELSE /\ delivered'[c] = delivered[c]
                    /\ c \notin Elems(clients')]_vars

\* The last broadcast failed on the first client, removed it, and reached
\* a client registered after it.
C19_Witness ==
  /\ broadcasts # <<>>
  /\ \E d \in broadcasts[Len(broadcasts)].dead, c \in Registered :
       /\ d < c
       /\ d \notin Registered
       /\ delivered[c][Len(delivered[c])].seq = Len(broadcasts)
       /\ delivered[d][Len(delivered[d])].seq < Len(broadcasts)

\* ===================================================================
\* streaming/readline-jsonl.ts: streamJSONL, the line decoder
\* ===================================================================
\* ------------------------------------------------------------- bounds
MaxLines == 3

\* Lines over the characters space, #, x and the brackets: objects and
\* arrays with and without white space, blank lines, a comment, and
\* texts that are not JSON.
LineTexts ==
  { <<"{", "}">>, <<" ", "{", "}", " ">>, <<"[", " ", "]">>,
    <<>>, <<" ">>, <<"#", "{", "}">>,
    <<"{">>, <<"x">>, <<"{", "}", "]">> }

JsonlFiles == UNION { [1..n -> LineTexts] : n \in 0..MaxLines }

\* String.prototype.trim
RECURSIVE trimStart(_)
trimStart(s) ==
  IF s # <<>> /\ Head(s) = " " THEN trimStart(Tail(s)) ELSE s

RECURSIVE trimEnd(_)
trimEnd(s) ==
  IF s # <<>> /\ s[Len(s)] = " " THEN trimEnd(SubSeq(s, 1, Len(s) - 1))
  ELSE s

trim(s) == trimEnd(trimStart(s))

startsWith(s, ch) == s # <<>> /\ Head(s) = ch

\* JSON.parse on these characters: white space is allowed around every
\* token; the only values are the empty object and the empty array.
SyntaxError == "SyntaxError"
parseJSON(text) ==
  LET tokens == SelectSeq(text, LAMBDA ch : ch # " ")
  IN IF tokens = <<"{", "}">> THEN "object"
     ELSE IF tokens = <<"[", "]">> THEN "array"
     ELSE SyntaxError

NewReader ==
  [pc |-> "reading", lineNumber |-> 0, errorCount |-> 0, out |-> <<>>]

\* A catch block that gives up on the file.
StopAtMalformed(rd) == [rd EXCEPT !.errorCount = @ + 1, !.pc = "done"]

\* catch (error) { errorCount++; ... }: the loop goes on.
SkipMalformed(rd) == [rd EXCEPT !.errorCount = @ + 1]

\* One iteration of for await (const line of rl).
ReadLineOf(rd, line) ==
  LET counted == [rd EXCEPT !.lineNumber = @ + 1]
      trimmed == trim(line)
      parsed == parseJSON(trimmed)
  IN IF trimmed = <<>> \/ startsWith(trimmed, "#") THEN counted
     ELSE IF parsed = SyntaxError THEN SkipMalformed(counted)
     ELSE [counted EXCEPT
             !.out = Append(@, [lineNumber |-> counted.lineNumber,
                                data |-> parsed])]

DecoderInit ==
  /\ jsonl \in JsonlFiles
  /\ reader = NewReader
  /\ PipelineOff /\ AggOff /\ TrackerOff /\ SseOff /\ ExtraOff

ReadLine ==
  /\ reader.pc = "reading"
  /\ reader.lineNumber < Len(jsonl)
  /\ reader' = ReadLineOf(reader, jsonl[reader.lineNumber + 1])
  /\ UNCHANGED <<jsonl, pipelineVars, extraVars, aggVars, trackerVars, sseVars>>

\* readline has no more lines: the generator returns.
EndOfFile ==
  /\ reader.pc = "reading"
  /\ reader.lineNumber = Len(jsonl)
  /\ reader' = [reader EXCEPT !.pc = "done"]
  /\ UNCHANGED <<jsonl, pipelineVars, extraVars, aggVars, trackerVars, sseVars>>

DecoderNext == ReadLine \/ EndOfFile

DecoderSpec == DecoderInit /\ [][DecoderNext]_vars

\* The line is a JSON text.
WellFormed(line) == parseJSON(line) # SyntaxError

\* The records of the well-formed lines among the first n, in file order.
RECURSIVE RecordsOf(_, _)
RecordsOf(lines, n) ==
  IF n = 0 THEN <<>>
  ELSE IF WellFormed(lines[n])
    THEN Append(RecordsOf(lines, n - 1),
                [lineNumber |-> n, data |-> parseJSON(lines[n])])
  ELSE RecordsOf(lines, n - 1)

MalformedLines(lines) == { n \in 1..Len(lines) : ~WellFormed(lines[n]) }

\* C20: for a file of N lines of which K are not JSON texts, the decoder
\* ends only at the end of the file, having yielded N - K records: those
\* of the well-formed lines, in file order; until then it has yielded the
\* records of the lines read so far.
C20_YieldsWellFormedLinesInOrder ==
  /\ reader.pc \in {"reading", "done"}
  /\ reader.out = RecordsOf(jsonl, reader.lineNumber)
  /\ reader.pc = "done" =>
       /\ reader.lineNumber = Len(jsonl)
       /\ Len(reader.out) = Len(jsonl) - Cardinality(MalformedLines(jsonl))

\* The decoder has finished a file in which a line that failed to parse
\* comes before a well-formed line.
C20_Witness ==
  /\ reader.pc = "done"
  /\ reader.errorCount >= 1
  /\ \E n, m \in 1..Len(jsonl) :
       /\ n < m
       /\ ~WellFormed(jsonl[n]) /\ trim(jsonl[n]) # <<>>
       /\ WellFormed(jsonl[m])
       /\ reader.out[Len(reader.out)].lineNumber = m

\* ===================================================================
\* pricing.ts calculateCost and config.ts needsParsing, call by call
\* ===================================================================
\* ------------------------------------------------------------- bounds
MaxTokens == 2
MaxMtime == 2

\* Model strings: the three families in several spellings, a string that
\* names two families, a string that names none and the empty string.
ModelStrings ==
  { <<"O", "p", "u", "s">>, <<"h", "a", "i", "k", "u">>,
    <<"H", "A", "I", "K", "U">>,
    <<"h", "a", "i", "k", "u", "-", "o", "p", "u", "s">>,
    <<"s", "o", "n", "n", "e", "t">>, <<"g", "p", "t">>, <<>> }

TokenUsages ==
  [input : 0..MaxTokens, output : 0..MaxTokens,
   cacheRead : 0..MaxTokens, cacheCreation : 0..MaxTokens]

\* What stat(projectDirPath) does: it throws, or returns the mtime.
StatResults ==
  {[ok |-> FALSE]} \cup { [ok |-> TRUE, mtimeMs |-> m] : m \in 0..MaxMtime }

\* this.cache.get(projectId): undefined, or the entry.
NoEntry == [found |-> FALSE]
CacheGets ==
  {NoEntry} \cup { [found |-> TRUE, mtime |-> m] : m \in 0..MaxMtime }

\* Stale sets of two and more ids (the dispatcher is not used below two)
\* and the machines they are parsed on.
MaxStale == 10
MaxCpus == 4
StaleSets == { [i \in 1..n |-> i] : n \in 2..MaxStale }

Calls ==
  [fn : {"calculateCost"}, tokens : TokenUsages, model : ModelStrings]
  \cup [fn : {"needsParsing"}, cached : CacheGets, dirStat : StatResults]
  \cup [fn : {"parseProjectsWithWorkers"}, projectIds : StaleSets,
        numCPUs : 1..MaxCpus]

\* needsParsing on the entry it finds and the outcome of its stat.
NeedsParsingCall(cached, dirStat) ==
  IF ~enabled THEN TRUE
  ELSE IF ~cached.found THEN TRUE
  ELSE IF ~dirStat.ok THEN TRUE
  ELSE NeedsParsingAfterStat(cached.mtime, dirStat.mtimeMs)

CallInit ==
  /\ call \in Calls
  /\ ret = NoResult
  /\ PipelineOff /\ AggOff /\ TrackerOff /\ SseOff /\ DecoderOff /\ PidOff
  /\ ParseOff

CallCalculateCost ==
  /\ ret = NoResult
  /\ call.fn = "calculateCost"
  /\ ret' = [value |-> calculateCost(call.tokens, call.model)]
  /\ UNCHANGED <<call, pipelineVars, aggVars, trackerVars, sseVars,
                 decoderVars, pidVars, parseVars>>

CallNeedsParsing ==
  /\ ret = NoResult
  /\ call.fn = "needsParsing"
  /\ ret' = [value |-> NeedsParsingCall(call.cached, call.dirStat)]
  /\ UNCHANGED <<call, pipelineVars, aggVars, trackerVars, sseVars,
                 decoderVars, pidVars, parseVars>>

\* parseProjectsWithWorkers up to its await: the chunks, and one runWorker
\* per chunk, each with the task message it was sent.
CallParseProjectsWithWorkers ==
  /\ ret = NoResult
  /\ call.fn = "parseProjectsWithWorkers"
  /\ LET chunks == ChunksFor(call.projectIds, call.numCPUs)
     IN ret' = [chunks |-> chunks,
                workers |-> [w \in 1..Len(chunks) |-> NewWorker(chunks[w])],
                sent |-> [w \in 1..Len(chunks) |->
                            <<[projectIds |-> chunks[w]]>>]]
  /\ UNCHANGED <<call, pipelineVars, aggVars, trackerVars, sseVars,
                 decoderVars, pidVars, parseVars>>

CallNext ==
  CallCalculateCost \/ CallNeedsParsing \/ CallParseProjectsWithWorkers

CallSpec == CallInit /\ [][CallNext]_vars

Returned(fn) == call.fn = fn /\ ret # NoResult

\* The family of a model string: the first of opus, haiku whose name occurs
\* in it in any letter case, else sonnet.
FamilyOf(m) ==
  LET lower == toLowerCase(m)
  IN IF Includes(lower, Opus) THEN "opus"
     ELSE IF Includes(lower, Haiku) THEN "haiku"
     ELSE "sonnet"

\* C21: calculateCost(t, m) is the sum over the four categories of the
\* count times the rate of m's family, and one million input tokens of a
\* haiku model cost 1.00 (100 cents).
C21_CostIsSumOfCategoryRates ==
  Returned("calculateCost") =>
    LET t == call.tokens
        r == PRICING[FamilyOf(call.model)]
    IN /\ ret.value = t.input * r.inputRate + t.output * r.outputRate
                      + t.cacheRead * r.cacheReadRate
                      + t.cacheCreation * r.cacheCreateRate
       /\ (FamilyOf(call.model) = "haiku"
           /\ t = [input |-> 1, output |-> 0, cacheRead |-> 0,
                   cacheCreation |-> 0]) => ret.value = 100

\* The cost of a usage with all four categories, for a model written in
\* capitals.
C21_Witness ==
  /\ Returned("calculateCost")
  /\ call.model = <<"H", "A", "I", "K", "U">>
  /\ call.tokens.input >= 1 /\ call.tokens.output >= 1
  /\ call.tokens.cacheRead >= 1 /\ call.tokens.cacheCreation >= 1
  /\ ret.value > 0

\* C22: the cost is never negative and the cost of the all-zero usage is 0,
\* for every model string.
C22_CostNonNegativeZeroForZero ==
  Returned("calculateCost") =>
    /\ ret.value >= 0
    /\ call.tokens = [input |-> 0, output |-> 0, cacheRead |-> 0,
                      cacheCreation |-> 0] => ret.value = 0

\* The cost of the all-zero usage has been computed for a model string
\* that names no family.
C22_Witness ==
  /\ Returned("calculateCost")
  /\ call.model = <<"g", "p", "t">>
  /\ call.tokens = [input |-> 0, output |-> 0, cacheRead |-> 0,
                    cacheCreation |-> 0]
  /\ ret.value = 0

\* C28: needsParsing returns false exactly when the entry exists, the stat
\* succeeds and the directory's modification time equals the stored one.
C28_FalseExactlyWhenMtimeEqual ==
  Returned("needsParsing") =>
    (ret.value = FALSE <=>
       (call.cached.found /\ call.dirStat.ok
        /\ call.dirStat.mtimeMs = call.cached.mtime))

\* ===================================================================
\* The refresh pipeline: empty directories and the project cache
\* ===================================================================
\* The summaries a refresh holds or has published.
SummariesOf(list) == { list[n] : n \in 1..Len(list) }

HeldSummaries ==
  SummariesOf(cachedData.projects)
  \cup UNION { SummariesOf(callers[c].result.projects) : c \in Callers }
  \cup UNION { SummariesOf(refresh[r].parsedProjects)
               \cup SummariesOf(refresh[r].allProjects) : r \in Refreshes }

\* C23: a directory without log files and without index yields no summary:
\* no list of a refresh and no published state holds a summary of a
\* directory that is empty, or a summary without content.
C23_EmptyDirectoryOmitted ==
  \A s \in HeldSummaries :
     /\ s # NullSummary
     /\ s.ver >= 1
     /\ dirVer[s.src] >= 1

\* A refresh has parsed the listed directories, one of them empty, and has
\* published the others.
C23_Witness ==
  /\ published >= 1
  /\ \E p \in Listed : dirVer[p] = 0
  /\ Len(cachedData.projects) >= 1
  /\ \A p \in Listed : dirVer[p] = 0 => p \notin Elems(Sources(cachedData.projects))

\* C25: the entry stored under id P holds a summary obtained by parsing
\* directory P.
C25_EntryHoldsOwnSummary ==
  \A p \in DOMAIN cache : cache[p].summary.src = p

\* C27: when no refresh is running, a project whose published summary
\* reflects the directory as it is now is a cache hit for the next refresh.
C27_ParsedProjectIsCacheHit ==
  InFlight = {} =>
    \A s \in SummariesOf(cachedData.projects) :
       (s.ver = dirVer[s.src] /\ s.src \in Listed)
         => ~needsParsing(cache, dirMtime, s.src)

\* The refreshes whose partition into cached and stale projects is finished.
Partitioned ==
  {r \in Refreshes : refresh[r].pc \in {"seq", "workers", "update", "merged",
                                         "done"}}

\* C26: a refresh triggered with a changed path inside a listed project P
\* has P in its stale set once its partition is finished, whatever other
\* refreshes do meanwhile.
C26_ChangedProjectReparsed ==
  \A r \in Partitioned :
     LET P == extractProjectIdFromPath(refresh[r].changedFile)
     IN (P # NoProject /\ P \in Listed)
          => \E n \in 1..Len(refresh[r].projectsToParse) :
                refresh[r].projectsToParse[n] = P


\* ---------------------------------------------------------------------
\* The PID lock: server processes starting against one lock file
\* ---------------------------------------------------------------------
\* pidFile is the pid stored in ~/.claude/.dashboard-pid, 0 when the file
\* does not exist. procs maps each process to its position in register and
\* checkAndClaimLock (pc), the lock it read (existing, 0 for null) and the
\* lock its heartbeat has read and not yet written back (beat).
NumProcs == 3
Pids == 1..NumProcs

\* The pid found in a lock file left behind by a process of an earlier boot.
DeadPid == NumProcs + 1

NewProc == [pc |-> "off", existing |-> 0, beat |-> 0]

\* process.kill(pid, 0) succeeds
isProcessAlive(pid) ==
  pid \in Pids /\ procs[pid].pc \notin {"off", "exited", "dead"}

PidInit ==
  /\ pidFile \in {0, DeadPid}
  /\ procs = [p \in Pids |-> NewProc]
  /\ PipelineOff /\ AggOff /\ TrackerOff /\ SseOff /\ DecoderOff /\ CallOff
  /\ ParseOff

PidFrame == UNCHANGED <<pipelineVars, aggVars, trackerVars, sseVars,
                        decoderVars, callVars, parseVars>>

\* register() up to the readFile of getExistingServer.
Launch(p) ==
  /\ procs[p].pc = "off"
  /\ procs' = [procs EXCEPT ![p].pc = "reading"]
  /\ UNCHANGED pidFile
  /\ PidFrame

\* The readFile has settled: refuse when the lock's process is alive, unlink
\* a stale lock, otherwise issue the writeFile.
ReadDone(p) ==
  /\ procs[p].pc = "reading"
  /\ LET existing == pidFile
     IN procs' = [procs EXCEPT
          ![p].existing = existing,
          ![p].pc = IF existing # 0 /\ isProcessAlive(existing) THEN "refused"
                    ELSE IF existing # 0 THEN "unlinking"
                    ELSE "writing"]
  /\ UNCHANGED pidFile
  /\ PidFrame

\* release() of the stale lock has unlinked the file; the writeFile is issued.
release(p) ==
  /\ procs[p].pc = "unlinking"
  /\ pidFile' = 0
  /\ procs' = [procs EXCEPT ![p].pc = "writing"]
  /\ PidFrame

\* The writeFile has finished: the heartbeat starts and checkAndClaimLock
\* returns true.
ClaimLock(p) ==
  /\ procs[p].pc = "writing"
  /\ pidFile' = p
  /\ procs' = [procs EXCEPT ![p].pc = "running"]
  /\ PidFrame

\* checkAndClaimLock returned false: register prints and exits.
RefusedExit(p) ==
  /\ procs[p].pc = "refused"
  /\ procs' = [procs EXCEPT ![p].pc = "exited"]
  /\ UNCHANGED pidFile
  /\ PidFrame

\* The heartbeat's readFile has returned a lock.
HeartbeatRead(p) ==
  /\ procs[p].pc = "running"
  /\ procs[p].beat = 0
  /\ pidFile # 0
  /\ procs' = [procs EXCEPT ![p].beat = pidFile]
  /\ UNCHANGED pidFile
  /\ PidFrame

\* The heartbeat writes the lock it read back with a new lastHeartbeat.
HeartbeatWrite(p) ==
  /\ procs[p].pc = "running"
  /\ procs[p].beat # 0
  /\ pidFile' = procs[p].beat
  /\ procs' = [procs EXCEPT ![p].beat = 0]
  /\ PidFrame

\* Shutdown of a running server: release() unlinks the file, then exit.
ReleaseAndExit(p) ==
  /\ procs[p].pc = "running"
  /\ pidFile' = 0
  /\ procs' = [procs EXCEPT ![p].pc = "exited", ![p].beat = 0]
  /\ PidFrame

\* A running server is killed: the lock file stays.
Killed(p) ==
  /\ procs[p].pc = "running"
  /\ procs' = [procs EXCEPT ![p].pc = "dead", ![p].beat = 0]
  /\ UNCHANGED pidFile
  /\ PidFrame

PidNext ==
  \E p \in Pids :
     \/ Launch(p)
     \/ ReadDone(p)
     \/ release(p)
     \/ ClaimLock(p)
     \/ RefusedExit(p)
     \/ HeartbeatRead(p)
     \/ HeartbeatWrite(p)
     \/ ReleaseAndExit(p)
     \/ Killed(p)

PidSpec == PidInit /\ [][PidNext]_vars

\* The processes that were told they may start and are still alive.
Started == {p \in Pids : procs[p].pc = "running"}

\* C24: at most one live process has been told by checkAndClaimLock that it
\* may start.
C24_AtMostOneInstanceStarts == Cardinality(Started) <= 1


\* ------------------------------------- tracker, transitions and frame
\* The state changes the lifecycle allows.
AllowedMoves ==
  { Move("STARTING", "ACTIVE"), Move("ACTIVE", "IDLE"),
    Move("IDLE", "GRACE_PERIOD"), Move("GRACE_PERIOD", "ACTIVE"),
    Move("GRACE_PERIOD", "SHUTTING_DOWN") }

\* The state changes a step has made lead from the state before it to the
\* state after it.
MovesLinkStates ==
  LET log == transitions'
  IN /\ state' # state => log # <<>>
     /\ log # <<>> =>
          /\ log[1].from = state
          /\ log[Len(log)].to = state'
          /\ \A n \in 1..(Len(log) - 1) : log[n].to = log[n + 1].from

\* C29: every state change of the tracker is one of the five allowed moves,
\* and once the state is SHUTTING_DOWN no step changes it.
C29_OnlyAllowedMoves ==
  [][ /\ MovesLinkStates
      /\ \A n \in 1..Len(transitions') : transitions'[n] \in AllowedMoves
      /\ state = "SHUTTING_DOWN" => state' = "SHUTTING_DOWN" ]_vars

\* SHUTTING_DOWN has been reached, a session log was written after that and
\* a sweep has run after the write.
C29_Witness ==
  /\ state = "SHUTTING_DOWN"
  /\ ~Exited
  /\ nextCheck = PollInterval
  /\ \E k \in DOMAIN sessions : sessions[k] = 1


\* The directory that holds one subdirectory per project.
ProjectsRoot == ClaudeDir \o <<"projects">>

\* The path of a session log inside a project directory: a .jsonl file
\* other than the index, directly in the directory or in its sessions
\* folder.
SessionLog(f) ==
  /\ f.ext = "jsonl"
  /\ f.name # "sessions-index"
  /\ Len(f.dirs) \in {Len(ProjectsRoot) + 1, Len(ProjectsRoot) + 2}
  /\ SubSeq(f.dirs, 1, Len(ProjectsRoot)) = ProjectsRoot
  /\ Len(f.dirs) = Len(ProjectsRoot) + 2 => f.dirs[Len(f.dirs)] = "sessions"

\* Its (projectId, sessionId).
KeyOf(f) == <<f.dirs[Len(ProjectsRoot) + 1], f.name>>

\* C30: a change notification for a path that is not a session log inside a
\* project directory leaves state, records and grace timer as they are; one
\* for a session log sets the record under its (projectId, sessionId) and
\* no other.
C30_OnlySessionLogsTouchTracker ==
  [][ reported' # NoPath =>
        IF SessionLog(reported')
        THEN /\ DOMAIN sessions' = DOMAIN sessions \cup {KeyOf(reported')}
             /\ sessions'[KeyOf(reported')] = 0
             /\ \A k \in DOMAIN sessions \ {KeyOf(reported')} :
                   sessions'[k] = sessions[k]
        ELSE /\ sessions' = sessions
             /\ state' = state
             /\ graceTimer' = graceTimer
             /\ graceStartTime' = graceStartTime ]_vars


\* ------------------------------------------------ the worker dispatch
\* N of parseProjectsWithWorkers for the call at hand.
GroupLimit == Min(Min(MaxWorkers, call.numCPUs), Len(call.projectIds))

\* C31: the stale ids are split into at most N = min(4, CPU count, number
\* of stale ids) groups, none empty, every id in exactly one group; one
\* worker is spawned per group and is sent one task message, its group.
C31_GroupsPartitionStaleIds ==
  Returned("parseProjectsWithWorkers") =>
    /\ Len(ret.chunks) <= GroupLimit
    /\ \A g \in 1..Len(ret.chunks) : ret.chunks[g] # <<>>
    /\ Flat(ret.chunks) = call.projectIds
    /\ Len(ret.workers) = Len(ret.chunks)
    /\ \A w \in 1..Len(ret.workers) :
         /\ ret.workers[w].chunk = ret.chunks[w]
         /\ Len(ret.sent[w]) = 1
         /\ ret.sent[w][1].projectIds = ret.chunks[w]

\* Five stale ids on a machine with four or more cores: fewer groups than
\* N, the last one smaller.
C31_Witness ==
  /\ Returned("parseProjectsWithWorkers")
  /\ Len(call.projectIds) = 5
  /\ call.numCPUs = 4
  /\ Len(ret.chunks) = 3

\* C32: the sizes of any two groups differ by at most one.
C32_GroupSizesDifferByAtMostOne ==
  Returned("parseProjectsWithWorkers") =>
    \A g, h \in 1..Len(ret.chunks) :
       Len(ret.chunks[g]) - Len(ret.chunks[h]) <= 1


\* ---------------------------------------------------------------------
\* project-parser.ts: parseProjects in one worker, file by file
\* ---------------------------------------------------------------------
\* pLimit(16), scaled to the number of log files of the directories below.
ReadLimit == 2

\* The objects streamJSONL yields. An absent cwd or model is <<>>, an absent
\* timestamp is 0; timestamps are ISO strings, compared as numbers here.
NoUsage == [input |-> 0, output |-> 0, cacheRead |-> 0, cacheCreation |-> 0]
UserRecord(cwd, isMeta, timestamp) ==
  [type |-> "user", cwd |-> cwd, isMeta |-> isMeta, timestamp |-> timestamp,
   hasUsage |-> FALSE, model |-> <<>>, usage |-> NoUsage]
AssistantRecord(model, usage, timestamp) ==
  [type |-> "assistant", cwd |-> <<>>, isMeta |-> FALSE,
   timestamp |-> timestamp, hasUsage |-> TRUE, model |-> model,
   usage |-> usage]

SubDir == CwdOf("A") \o <<"/", "s">>
Usage1 == [input |-> 1, output |-> 2, cacheRead |-> 0, cacheCreation |-> 1]
Usage2 == [input |-> 2, output |-> 1, cacheRead |-> 1, cacheCreation |-> 0]

\* Three session logs: one started in the project directory, one in a
\* subdirectory of it, one with a meta record and no timestamps.
Log1 == <<UserRecord(CwdOf("A"), FALSE, 1), AssistantRecord(Opus, Usage1, 2)>>
Log2 == <<UserRecord(SubDir, FALSE, 3), AssistantRecord(Sonnet, Usage2, 3)>>
Log3 == <<UserRecord(<<>>, TRUE, 0), AssistantRecord(<<>>, Usage2, 0)>>
LogSets == { <<>>, <<Log3>>, <<Log1, Log2>>, <<Log1, Log2, Log3>> }

\* sessions-index.json: absent, not JSON, or an object whose entries array
\* holds entries and possibly a null.
IndexPath == <<"/", "i">>
Entry(messageCount, modified) ==
  [null |-> FALSE, messageCount |-> messageCount, modified |-> modified,
   projectPath |-> IndexPath]
NullEntry ==
  [null |-> TRUE, messageCount |-> 0, modified |-> 0, projectPath |-> <<>>]
Indexes ==
  { [kind |-> "missing", entries |-> <<>>],
    [kind |-> "malformed", entries |-> <<>>],
    [kind |-> "ok", entries |-> <<>>],
    [kind |-> "ok", entries |-> <<Entry(5, 4)>>],
    [kind |-> "ok", entries |-> <<Entry(5, 4), Entry(2, 6)>>],
    [kind |-> "ok", entries |-> <<Entry(5, 4), NullEntry>>] }

\* A project directory: its id, its index file and its log files.
DirInputs == [id : {IdOf("A")}, index : Indexes, logs : LogSets]
OtherDir ==
  [id |-> <<"C", "-", "-", "w">>,
   index |-> [kind |-> "missing", entries |-> <<>>],
   logs |-> <<Log1, Log3>>]

\* The two directories of the worker's chunk; the same content twice is a
\* directory parsed again unchanged.
Parses == 1..2

\* new Date().toISOString() at the call of parse j: later than every
\* timestamp in the files, and later for a later call.
CallTime(j) == 10 + j

\* String.prototype.replace with a global pattern.
RECURSIVE ReplaceAll(_, _, _)
ReplaceAll(str, pat, by) ==
  IF Len(str) < Len(pat) THEN str
  ELSE IF SubSeq(str, 1, Len(pat)) = pat
       THEN by \o ReplaceAll(SubSeq(str, Len(pat) + 1, Len(str)), pat, by)
       ELSE <<str[1]>> \o ReplaceAll(Tail(str), pat, by)

\* projectId.replace(/C--/g, 'C:\\').replace(/--/g, '\\')
DecodeId(projectId) ==
  ReplaceAll(ReplaceAll(projectId, <<"C", "-", "-">>, <<"C", ":", "\\">>),
             <<"-", "-">>, <<"\\">>)

\* The locals of parseProjectDirectory before anything is read.
NewJob(j, projectId) ==
  [pc |-> "waiting", hasSessionsIndex |-> FALSE, sessionCount |-> 0,
   messageCount |-> 0, lastActive |-> CallTime(j), projectPath |-> projectId,
   totalTokens |-> NoUsage, modelTokens |-> <<>>, userMessageCount |-> 0,
   latestTimestamp |-> 0, files |-> <<>>, result |-> [null |-> TRUE]]

\* The loop over the index entries: it throws at a null entry.
RECURSIVE IndexLoop(_, _, _)
IndexLoop(job, entries, k) ==
  IF k > Len(entries) THEN [job |-> job, threw |-> FALSE]
  ELSE IF entries[k].null THEN [job |-> job, threw |-> TRUE]
  ELSE IndexLoop(
         [job EXCEPT !.messageCount = @ + entries[k].messageCount,
                     !.lastActive = IF entries[k].modified > @
                                    THEN entries[k].modified ELSE @],
         entries, k + 1)

\* The try block on sessions-index.json, with its empty catch.
ReadIndex(job, dir) ==
  LET entries == dir.index.entries
      first == [job EXCEPT
                  !.hasSessionsIndex = TRUE,
                  !.sessionCount = Len(entries),
                  !.lastActive = IF ~entries[1].null /\ entries[1].modified # 0
                                 THEN entries[1].modified ELSE @]
      looped == IndexLoop(first, entries, 1)
  IN IF dir.index.kind # "ok" \/ entries = <<>> THEN job
     ELSE IF looped.threw THEN looped.job
     ELSE [looped.job EXCEPT
             !.projectPath = IF ~entries[1].null /\ entries[1].projectPath # <<>>
                             THEN entries[1].projectPath ELSE dir.id]

AddUsage(t, u) ==
  [input |-> t.input + u.input, output |-> t.output + u.output,
   cacheRead |-> t.cacheRead + u.cacheRead,
   cacheCreation |-> t.cacheCreation + u.cacheCreation]

Unknown == <<"u", "n", "k", "n", "o", "w", "n">>

\* A loop body in which the timestamp read last is kept as the latest.
ConsumeLastTimestamp(job, dir, obj) ==
  LET model == IF obj.model # <<>> THEN obj.model ELSE Unknown
      seen == DOMAIN job.modelTokens
      counted ==
        IF obj.type = "assistant" /\ obj.hasUsage
        THEN [job EXCEPT
                !.totalTokens = AddUsage(@, obj.usage),
                !.modelTokens =
                   [m \in seen \cup {model} |->
                      IF m = model
                      THEN AddUsage(IF m \in seen THEN job.modelTokens[m]
                                    ELSE NoUsage, obj.usage)
                      ELSE job.modelTokens[m]]]
        ELSE job
  IN IF job.hasSessionsIndex THEN counted
     ELSE [counted EXCEPT
             !.projectPath = IF obj.type = "user" /\ obj.cwd # <<>>
                                /\ @ = dir.id
                             THEN obj.cwd ELSE @,
             !.userMessageCount = IF obj.type = "user" /\ ~obj.isMeta
                                  THEN @ + 1 ELSE @,
             !.latestTimestamp = IF obj.timestamp # 0
                                 THEN obj.timestamp ELSE @]

\* The body of the for await loop for one object.
Consume(job, dir, obj) ==
  LET model == IF obj.model # <<>> THEN obj.model ELSE Unknown
      seen == DOMAIN job.modelTokens
      counted ==
        IF obj.type = "assistant" /\ obj.hasUsage
        THEN [job EXCEPT
                !.totalTokens = AddUsage(@, obj.usage),
                !.modelTokens =
                   [m \in seen \cup {model} |->
                      IF m = model
                      THEN AddUsage(IF m \in seen THEN job.modelTokens[m]
                                    ELSE NoUsage, obj.usage)
                      ELSE job.modelTokens[m]]]
        ELSE job
  IN IF job.hasSessionsIndex THEN counted
     ELSE [counted EXCEPT
             !.projectPath = IF obj.type = "user" /\ obj.cwd # <<>>
                                /\ @ = dir.id
                             THEN obj.cwd ELSE @,
             !.userMessageCount = IF obj.type = "user" /\ ~obj.isMeta
                                  THEN @ + 1 ELSE @,
             !.latestTimestamp = IF obj.timestamp # 0 /\ obj.timestamp > @
                                 THEN obj.timestamp ELSE @]


\* p-limit: queued tasks are started in order while fewer than the limit
\* are running.
Running(files) == {f \in 1..Len(files) : files[f].status = "reading"}
Queued(files) == {f \in 1..Len(files) : files[f].status = "queued"}
RECURSIVE Admit(_)
Admit(files) ==
  IF Cardinality(Running(files)) < ReadLimit /\ Queued(files) # {}
  THEN LET f == CHOOSE g \in Queued(files) : \A h \in Queued(files) : g <= h
       IN Admit([files EXCEPT ![f].status = "reading"])
  ELSE files

\* After Promise.all has resolved: the metadata taken from the logs, the
\* test for an empty project, the cost and the summary.
Finish(job, dir) ==
  LET n == Len(job.files)
      m == IF ~job.hasSessionsIndex /\ n > 0
           THEN [job EXCEPT
                   !.sessionCount = n,
                   !.messageCount = job.userMessageCount,
                   !.lastActive = IF job.latestTimestamp # 0
                                  THEN job.latestTimestamp ELSE @,
                   !.projectPath = IF @ = dir.id THEN DecodeId(dir.id) ELSE @]
           ELSE job
      models == DOMAIN m.modelTokens
  IN IF m.sessionCount = 0 /\ n = 0 THEN [null |-> TRUE]
     ELSE [null |-> FALSE,
           name |-> basename(m.projectPath),
           path |-> m.projectPath,
           sessionCount |-> m.sessionCount,
           messageCount |-> m.messageCount,
           totalTokens |-> m.totalTokens,
           lastActive |-> m.lastActive,
           estimatedCost |->
             SumSet(models,
                    [k \in models |-> calculateCost(m.modelTokens[k], k)])]

\* parseProjectDirectory j returns to the loop of parseProjects, which
\* calls it for the next project.
ReturnTo(js, j, result) ==
  [k \in Parses |->
     IF k = j THEN [js[k] EXCEPT !.pc = "returned", !.result = result]
     ELSE IF k = j + 1 THEN [js[k] EXCEPT !.pc = "index"]
     ELSE js[k]]

ParseInit ==
  /\ parseDirs \in [Parses -> DirInputs \cup {OtherDir}]
  /\ parseDirs[1] \in DirInputs
  /\ parseDirs[2] \in {parseDirs[1], OtherDir}
  /\ jobs = [j \in Parses |->
               [NewJob(j, parseDirs[j].id) EXCEPT
                  !.pc = IF j = 1 THEN "index" ELSE "waiting"]]
  /\ PipelineOff /\ AggOff /\ TrackerOff /\ SseOff /\ DecoderOff
  /\ CallOff /\ PidOff

ParseFrame ==
  UNCHANGED <<parseDirs, pipelineVars, aggVars, trackerVars, sseVars,
              decoderVars, callVars, pidVars>>

\* The readFile of sessions-index.json has settled; readdir is issued.
IndexRead(j) ==
  /\ jobs[j].pc = "index"
  /\ jobs' = [jobs EXCEPT
                ![j] = [ReadIndex(jobs[j], parseDirs[j]) EXCEPT
                          !.pc = "readdir"]]
  /\ ParseFrame

\* readdir has failed: the catch returns null.
ReaddirFails(j) ==
  /\ jobs[j].pc = "readdir"
  /\ jobs' = ReturnTo(jobs, j, [null |-> TRUE])
  /\ ParseFrame

\* readdir has returned: one limited task per .jsonl file; without files
\* Promise.all resolves at once.
ReaddirDone(j) ==
  /\ jobs[j].pc = "readdir"
  /\ LET logs == parseDirs[j].logs
         listed == [jobs[j] EXCEPT
                      !.pc = "reading",
                      !.files = Admit([f \in 1..Len(logs) |->
                                         [status |-> "queued", pos |-> 1]])]
     IN jobs' = IF logs = <<>>
                THEN ReturnTo([jobs EXCEPT ![j] = listed], j,
                              Finish(listed, parseDirs[j]))
                ELSE [jobs EXCEPT ![j] = listed]
  /\ ParseFrame

\* streamJSONL yields the next object of file f.
ReadRecord(j, f) ==
  /\ f \in 1..Len(jobs[j].files)
  /\ jobs[j].files[f].status = "reading"
  /\ jobs[j].files[f].pos <= Len(parseDirs[j].logs[f])
  /\ jobs' = [jobs EXCEPT
                ![j] = [Consume(jobs[j], parseDirs[j],
                                parseDirs[j].logs[f][jobs[j].files[f].pos])
                          EXCEPT !.files[f].pos = @ + 1]]
  /\ ParseFrame

\* A parse that carries on with the files it could read.
SettledSkippingFailed(j, f, status) ==
  LET files == Admit([jobs[j].files EXCEPT ![f].status = status])
      job == [jobs[j] EXCEPT !.files = files]
      js == [jobs EXCEPT ![j] = job]
  IN IF job.pc # "reading" THEN js
     ELSE IF \A g \in 1..Len(files) : files[g].status \in {"done", "failed"}
          THEN ReturnTo(js, j, Finish(job, parseDirs[j]))
     ELSE js

\* A task has settled: p-limit starts the next queued one, and
\* parseProjectDirectory goes on if it still awaits Promise.all.
Settled(j, f, status) ==
  LET files == Admit([jobs[j].files EXCEPT ![f].status = status])
      job == [jobs[j] EXCEPT !.files = files]
      js == [jobs EXCEPT ![j] = job]
  IN IF job.pc # "reading" THEN js
     ELSE IF status = "failed" THEN ReturnTo(js, j, [null |-> TRUE])
     ELSE IF \A g \in 1..Len(files) : files[g].status = "done"
          THEN ReturnTo(js, j, Finish(job, parseDirs[j]))
     ELSE js

\* File f has been read to its end.
FileEnd(j, f) ==
  /\ f \in 1..Len(jobs[j].files)
  /\ jobs[j].files[f].status = "reading"
  /\ jobs[j].files[f].pos > Len(parseDirs[j].logs[f])
  /\ jobs' = Settled(j, f, "done")
  /\ ParseFrame

\* Opening file f fails (it was deleted after readdir): streamJSONL throws.
FileFails(j, f) ==
  /\ f \in 1..Len(jobs[j].files)
  /\ jobs[j].files[f].status = "reading"
  /\ jobs[j].files[f].pos = 1
  /\ jobs' = Settled(j, f, "failed")
  /\ ParseFrame

MaxFiles == 3

ParseNext ==
  \E j \in Parses :
     \/ IndexRead(j)
     \/ ReaddirFails(j)
     \/ ReaddirDone(j)
     \/ \E f \in 1..MaxFiles :
          \/ ReadRecord(j, f)
          \/ FileEnd(j, f)
          \/ FileFails(j, f)

ParseSpec == ParseInit /\ [][ParseNext]_vars


\* ------------------------------------------- parseProjectDirectory, claims
ParseReturned(j) == jobs[j].pc = "returned" /\ ~jobs[j].result.null

\* An index that is an object with an entries array of entry objects.
WellFormedIndex(index) ==
  index.kind = "ok" /\ \A k \in 1..Len(index.entries) : ~index.entries[k].null

RECURSIVE SumMessageCounts(_)
SumMessageCounts(entries) ==
  IF entries = <<>> THEN 0
  ELSE entries[1].messageCount + SumMessageCounts(Tail(entries))

\* The non-meta user records of the log files.
UserMessages(logs) ==
  Cardinality({ <<f, n>> \in (1..Len(logs)) \X (1..2) :
                  /\ n <= Len(logs[f])
                  /\ logs[f][n].type = "user"
                  /\ ~logs[f][n].isMeta })

\* C33: with a well-formed index of at least one entry the session count is
\* the number of entries and the message count the sum of their message
\* counts; with a missing or malformed index the counts come from the logs:
\* one session per log file, one message per non-meta user record.
C33_IndexIsAuthoritativeElseLogs ==
  \A j \in Parses :
     ParseReturned(j) =>
       LET dir == parseDirs[j]
           r == jobs[j].result
       IN IF WellFormedIndex(dir.index)
          THEN dir.index.entries # <<>> =>
                 /\ r.sessionCount = Len(dir.index.entries)
                 /\ r.messageCount = SumMessageCounts(dir.index.entries)
          ELSE /\ r.sessionCount = Len(dir.logs)
               /\ r.messageCount = UserMessages(dir.logs)


\* The log files being read in the worker, over all its projects.
OpenReads ==
  { <<j, f>> \in Parses \X (1..MaxFiles) :
      f <= Len(jobs[j].files) /\ jobs[j].files[f].status = "reading" }

\* C34: at no time are more log files being read in the worker than the
\* limit allows, and at most one project is being parsed.
C34_ReadsWithinLimit ==
  /\ Cardinality(OpenReads) <= ReadLimit
  /\ Cardinality({j \in Parses :
                    jobs[j].pc \in {"index", "readdir", "reading"}}) <= 1


\* All records of the log files, file after file.
AllRecords(logs) == Flat(logs)

RECURSIVE SumUsage(_, _)
SumUsage(records, models) ==
  IF records = <<>> THEN NoUsage
  ELSE LET rest == SumUsage(Tail(records), models)
           obj == records[1]
           model == IF obj.model # <<>> THEN obj.model ELSE Unknown
       IN IF obj.type = "assistant" /\ obj.hasUsage /\ model \in models
          THEN AddUsage(rest, obj.usage) ELSE rest

ModelsOf(records) ==
  { IF records[n].model # <<>> THEN records[n].model ELSE Unknown :
      n \in { k \in 1..Len(records) : records[k].type = "assistant" } }

RECURSIVE LatestOf(_)
LatestOf(records) ==
  IF records = <<>> THEN 0
  ELSE Max(records[1].timestamp, LatestOf(Tail(records)))

\* C35: when all files have been read, the token totals, the sums per
\* model, the count of user messages and the latest timestamp are those of
\* the records in the files, each counted once, in whatever order the
\* reads were interleaved.
C35_TotalsIndependentOfInterleaving ==
  \A j \in Parses :
     ParseReturned(j) =>
       LET records == AllRecords(parseDirs[j].logs)
           models == ModelsOf(records)
           job == jobs[j]
       IN /\ job.result.totalTokens = SumUsage(records, models)
          /\ DOMAIN job.modelTokens = models
          /\ \A m \in models : job.modelTokens[m] = SumUsage(records, {m})
          /\ ~job.hasSessionsIndex =>
               /\ job.userMessageCount = UserMessages(parseDirs[j].logs)
               /\ job.latestTimestamp = LatestOf(records)

\* Three log files without an index have been read to the end.
C35_Witness ==
  /\ ParseReturned(1)
  /\ Len(parseDirs[1].logs) = 3
  /\ ~jobs[1].hasSessionsIndex
  /\ jobs[1].latestTimestamp = 3


\* C36: two parses of a directory with the same content return the same
\* summary, field by field.
C36_SameDirectorySameSummary ==
  (parseDirs[1] = parseDirs[2] /\ ParseReturned(1) /\ ParseReturned(2))
    => jobs[1].result = jobs[2].result


\* The files of parse j whose read has failed.
FailedReads(j) ==
  {f \in 1..Len(jobs[j].files) : jobs[j].files[f].status = "failed"}

\* C37: once the read of a log file has failed, parseProjectDirectory has
\* returned null; a summary is returned only when every listed file was
\* read to its end.
C37_FailedReadOmitsProject ==
  \A j \in Parses :
     /\ FailedReads(j) # {} => jobs[j].pc = "returned" /\ jobs[j].result.null
     /\ ParseReturned(j) =>
          \A f \in 1..Len(jobs[j].files) : jobs[j].files[f].status = "done"

\* A project with an index: one log file was read to its end, another could
\* not be opened, and null was returned.
C37_Witness ==
  /\ jobs[1].pc = "returned"
  /\ jobs[1].result.null
  /\ jobs[1].hasSessionsIndex
  /\ FailedReads(1) # {}
  /\ \E f \in 1..Len(jobs[1].files) : jobs[1].files[f].status = "done"


\* ------------------------------------------------ tracker, the snapshot
\* getState: graceStartTime holds the ticks since the grace period began,
\* so Date.now() - graceStartTime is the field itself.
getState(t, cfg) ==
  LET remainingMs == IF t.graceTimer # "null" /\ t.graceStartTime >= 0
                     THEN Max(0, cfg.gracePeriodMs - t.graceStartTime)
                     ELSE 0
  IN [state |-> t.state,
      activeSessions |-> DOMAIN t.sessions,
      graceTimer |-> [active |-> t.graceTimer # "null",
                      remainingMs |-> remainingMs,
                      gracePeriodMs |-> cfg.gracePeriodMs]]

\* C38: the snapshot reports graceTimer.active only in GRACE_PERIOD;
\* remainingMs lies between 0 and gracePeriodMs and is 0 when no timer is
\* active.
C38_SnapshotMatchesState ==
  LET s == getState(Tracker, config)
  IN /\ s.graceTimer.active => s.state = "GRACE_PERIOD"
     /\ s.graceTimer.remainingMs >= 0
     /\ s.graceTimer.remainingMs <= s.graceTimer.gracePeriodMs
     /\ ~s.graceTimer.active => s.graceTimer.remainingMs = 0


\* C39: as long as no session-log write has been observed the tracker is in
\* STARTING, no grace timer has been started and no shutdown has begun.
C39_StaysInStartingWithoutWrites ==
  observed = 0 =>
    /\ state = "STARTING"
    /\ graceTimer = "null"
    /\ graceStartTime = -1
    /\ shutdown = NoShutdown

\* No write was observed during three ticks, which include a sweep, and
\* the last sweep has just run.
C39_Witness ==
  /\ observed = 0
  /\ config.gracePeriodMs = 3
  /\ quiet = 3
  /\ nextCheck = PollInterval
  /\ state = "STARTING"

====
